---- MODULE Spec2Model ----
(***************************************************************************)
(* Verification model of walnuts1018/external-dns:                         *)
(*   - util.OrderedMap (provider/cloudflaretunnel/util/util.go)            *)
(*   - the OCI provider (zones, addPaginatedZones, Records, ApplyChanges)  *)
(*   - the Cloudflare Tunnel provider (Records, ApplyChanges)              *)
(* Go slices are modelled with their backing arrays (a heap of arrays and  *)
(* slice headers arr/len/cap), Go maps as functions on their key set.      *)
(***************************************************************************)
EXTENDS Integers, Sequences, FiniteSets, TLC

(***************************************************************************)
(* Bounds of the model.                                                    *)
(***************************************************************************)
\* largest capacity passed to NewOrderedMap
MaxCap == 2
\* longest Add-only call history that is traced for the Add contract
MaxAdds == 4
\* how many cells a caller appends to a slice returned by Get
MaxAppends == 1

\* most pages the vendor splits one listing (of zones, of records) into
MaxPages == 2
\* largest zone cache duration a provider is configured with
MaxDuration == 1
\* how far the clock runs
MaxTime == 2
\* the latest API call of one invocation that fault injection can fail
MaxFailAt == 4
\* most endpoints in one set of changes
MaxEndpoints == 2
\* records on one page of a record listing
MaxPageLen == 2

Hostnames == {"test1", "test2", "test3"}
Services == {"v1", "v2"}

\* cloudflare.UnvalidatedIngressRule, reduced to the fields the map reads
\* (Hostname) and the tests compare (Service).
Rules == [Hostname : Hostnames, Service : Services]

\* the zero value of UnvalidatedIngressRule (what a Go map lookup of an absent
\* key and a fresh array cell hold)
ZeroRule == [Hostname |-> "", Service |-> ""]

\* the rule ApplyChanges appends to the slice returned by Get
CatchAllRule == [Hostname |-> "", Service |-> "http_status:404"]

\* a nil slice (no backing array)
NilSlice == [arr |-> 0, len |-> 0, cap |-> 0]

VARIABLES
  heap,      \* backing arrays: array id -> sequence of cells (length = capacity)
  keys,      \* OrderedMap.keys : slice header [arr, len, cap]
  data,      \* OrderedMap.data : hostname -> rule (a function on the keys present)
  results,   \* the slice a caller holds from its last Get(), NilSlice before
  last,      \* the last call: [op, arg, ok, pre], ok the `ok` of its map lookup,
             \* pre the order, the lookup table and Get() as they were before it
  adds,      \* the arguments of the Add calls so far, while traced
  traced     \* TRUE while every call so far was an Add and adds is complete

VARIABLES
  cfg,       \* OCIProvider: zoneScope, domainFilter, zoneIDFilter, dryRun and
             \* cfg.ZoneCacheDuration, as passed to NewOCIProvider
  vendor,    \* the vendor's zone listing: scope -> number of pages
  changes,   \* the plan.Changes the controller applies
  zoneCache, \* OCIProvider.zoneCache: [populated, age, duration, zones]
  now,       \* the clock
  ocall      \* the last provider call: what it issued and what it returned

VARIABLES
  tunnel,    \* CloudFlareTunnelProvider: DryRun, domainFilter, zoneIDFilter,
             \* DNSRecordsPerPage and zoneNameIDMapper
  cf,        \* the vendor's side: the tunnel's Ingress list and the pages of
             \* DNS records of each zone
  cfcall     \* the last call of the Cloudflare provider

omvars == <<heap, keys, data, results, last, adds, traced>>

cfvars == <<tunnel, cf, cfcall>>

ocivars == <<cfg, vendor, changes, zoneCache, now, ocall>>

vars == <<heap, keys, data, results, last, adds, traced,
          cfg, vendor, changes, zoneCache, now, ocall, tunnel, cf, cfcall>>

----------------------------------------------------------------------------
(***************************************************************************)
(* Go slices and maps.                                                     *)
(***************************************************************************)

\* the elements a slice header denotes
SliceElems(h, s) == [i \in 1..s.len |-> h[s.arr][i]]

\* the smallest array id not in use
FreshArr(h) == CHOOSE n \in 1..(Cardinality(DOMAIN h) + 1) : n \notin DOMAIN h

\* make([]T, 0, cap)
MakeSlice(h, cap, zero) ==
  LET a == FreshArr(h) IN
  [heap  |-> (a :> [i \in 1..cap |-> zero]) @@ h,
   slice |-> [arr |-> a, len |-> 0, cap |-> cap]]

\* capacity chosen by append when the array is full
GrowCap(c) == IF c = 0 THEN 1 ELSE 2 * c

\* append(s, x): in place when capacity allows, else into a new, larger array
AppendOne(h, s, x, zero) ==
  IF s.len < s.cap
  THEN [heap  |-> [h EXCEPT ![s.arr][s.len + 1] = x],
        slice |-> [s EXCEPT !.len = s.len + 1]]
  ELSE LET a == FreshArr(h)
           c == GrowCap(s.cap)
       IN [heap  |-> (a :> [i \in 1..c |->
                              IF i <= s.len THEN h[s.arr][i]
                              ELSE IF i = s.len + 1 THEN x ELSE zero]) @@ h,
           slice |-> [arr |-> a, len |-> s.len + 1, cap |-> c]]

\* append(s[:i], s[i+1:]...) for the 1-based position i: the tail is moved
\* down inside the same array, whose last used cell keeps its old content
DeleteAt(h, s, i) ==
  [heap  |-> [h EXCEPT ![s.arr] =
                [j \in 1..s.cap |->
                   IF j >= i /\ j < s.len THEN h[s.arr][j + 1] ELSE h[s.arr][j]]],
   slice |-> [s EXCEPT !.len = s.len - 1]]

\* for i, v := range keys { if v == name {...; break} }: the first position
\* holding name, 0 when there is none
FirstIndex(h, s, name) ==
  IF \E i \in 1..s.len : h[s.arr][i] = name
  THEN CHOOSE i \in 1..s.len :
         /\ h[s.arr][i] = name
         /\ \A j \in 1..(i - 1) : h[s.arr][j] # name
  ELSE 0

\* m[k] of a Go map: the zero value when k is absent
Lookup(m, k) == IF k \in DOMAIN m THEN m[k] ELSE ZeroRule

\* m[k] = v
Put(m, k, v) == [x \in DOMAIN m \cup {k} |-> IF x = k THEN v ELSE m[x]]

\* delete(m, k)
Delete(m, k) == [x \in DOMAIN m \ {k} |-> m[x]]

\* arrays no slice refers to any more are collected
Live(h, ks, rs) ==
  [a \in DOMAIN h \cap {ks.arr, rs.arr} |-> h[a]]

----------------------------------------------------------------------------
(***************************************************************************)
(* util.OrderedMap                                                         *)
(***************************************************************************)

\* NewOrderedMap(cap)
NewOrderedMap(cap) ==
  LET m == MakeSlice(<<>>, cap, "") IN
  /\ heap = m.heap
  /\ keys = m.slice
  /\ data = <<>>

\* the keys/heap after removing the first occurrence of name from keys
RemoveKey(h, s, name) ==
  LET i == FirstIndex(h, s, name) IN
  IF i = 0 THEN [heap |-> h, slice |-> s] ELSE DeleteAt(h, s, i)

\* Add that stores the value of a present hostname without moving its key
AddResult_NoMove(h, ks, d, s) ==
  IF s.Hostname \notin DOMAIN d
  THEN LET a == AppendOne(h, ks, s.Hostname, "") IN
       [heap |-> a.heap, keys |-> a.slice, data |-> Put(d, s.Hostname, s)]
  ELSE [heap |-> h, keys |-> ks, data |-> Put(d, s.Hostname, s)]

\* Add that appends the key of a present hostname without removing the old one
AddResult_Dup(h, ks, d, s) ==
  LET a == AppendOne(h, ks, s.Hostname, "") IN
  [heap |-> a.heap, keys |-> a.slice, data |-> Put(d, s.Hostname, s)]

\* OrderedMap.Add as a function of the map state
AddResult(h, ks, d, s) ==
  IF s.Hostname \notin DOMAIN d
  THEN LET a == AppendOne(h, ks, s.Hostname, "") IN
       [heap |-> a.heap, keys |-> a.slice, data |-> Put(d, s.Hostname, s)]
  ELSE LET r == RemoveKey(h, ks, s.Hostname)
           a == AppendOne(r.heap, r.slice, s.Hostname, "")
       IN [heap |-> a.heap, keys |-> a.slice, data |-> Put(d, s.Hostname, s)]

\* Update that moves the key of a present hostname to the end, as Add does
UpdateResult_Move(h, ks, d, s) == AddResult(h, ks, d, s)

\* OrderedMap.Update as a function of the map state
UpdateResult(h, ks, d, s) ==
  IF s.Hostname \in DOMAIN d
  THEN [heap |-> h, keys |-> ks, data |-> Put(d, s.Hostname, s)]
  ELSE LET a == AppendOne(h, ks, s.Hostname, "") IN
       [heap |-> a.heap, keys |-> a.slice, data |-> Put(d, s.Hostname, s)]

\* Remove that deletes the value and leaves the key in the order
RemoveResult_KeepKey(h, ks, d, s) ==
  [heap |-> h, keys |-> ks, data |-> Delete(d, s.Hostname)]

\* OrderedMap.Remove as a function of the map state
RemoveResult(h, ks, d, s) ==
  IF s.Hostname \in DOMAIN d
  THEN LET r == RemoveKey(h, ks, s.Hostname) IN
       [heap |-> r.heap, keys |-> r.slice, data |-> Delete(d, s.Hostname)]
  ELSE [heap |-> h, keys |-> ks, data |-> d]

\* Get that builds its result in the backing array of keys
GetResult_Alias(h, ks, d) ==
  [heap  |-> [h EXCEPT ![ks.arr] =
                [i \in 1..ks.cap |->
                   IF i <= ks.len THEN Lookup(d, h[ks.arr][i]) ELSE ZeroRule]],
   slice |-> ks]

\* OrderedMap.Get: the values of the keys, in order, in a new array
GetResult(h, ks, d) ==
  LET m == MakeSlice(h, ks.len, ZeroRule)
      F[i \in 0..ks.len] ==
        IF i = 0 THEN m
        ELSE AppendOne(F[i - 1].heap, F[i - 1].slice, Lookup(d, h[ks.arr][i]), ZeroRule)
  IN F[ks.len]

\* the order list, as a sequence of hostnames
KeySeq == SliceElems(heap, keys)

\* what Get() returns in the current state, as a sequence of rules
GetSeq == LET g == GetResult(heap, keys, data) IN SliceElems(g.heap, g.slice)

\* OrderedMap.Len
OMLen == keys.len

\* the record of a call made in the current state
Call(op, s, ok) ==
  [op |-> op, arg |-> s, ok |-> ok,
   pre |-> [keys |-> KeySeq, data |-> data, get |-> GetSeq]]

\* a mutating call leaves the state st behind; the caller holds a slice
\* returned by Get() only until its next call that changes the map
Store(st, op, s, ok) ==
  /\ heap' = Live(st.heap, st.keys, NilSlice)
  /\ keys' = st.keys
  /\ data' = st.data
  /\ results' = NilSlice
  /\ last' = Call(op, s, ok)
  /\ UNCHANGED ocivars
  /\ UNCHANGED cfvars

Add(s) ==
  /\ Store(AddResult(heap, keys, data, s), "Add", s, s.Hostname \in DOMAIN data)
  /\ IF traced /\ Len(adds) < MaxAdds
     THEN adds' = Append(adds, s) /\ traced' = TRUE
     ELSE adds' = <<>> /\ traced' = FALSE

Update(s) ==
  /\ Store(UpdateResult(heap, keys, data, s), "Update", s, s.Hostname \in DOMAIN data)
  /\ adds' = <<>> /\ traced' = FALSE

Remove(s) ==
  /\ Store(RemoveResult(heap, keys, data, s), "Remove", s, s.Hostname \in DOMAIN data)
  /\ adds' = <<>> /\ traced' = FALSE

\* a caller keeps the slice returned by Get()
Get ==
  LET g == GetResult(heap, keys, data) IN
  /\ results' = g.slice
  /\ heap' = Live(g.heap, keys, g.slice)
  /\ last' = Call("Get", ZeroRule, TRUE)
  /\ UNCHANGED <<keys, data, adds, traced>>
  /\ UNCHANGED ocivars
  /\ UNCHANGED cfvars

\* the caller overwrites element i of the slice it got: results[i] = r
ResultSet(i, r) ==
  /\ results.arr # 0
  /\ i \in 1..results.len
  /\ heap' = [heap EXCEPT ![results.arr][i] = r]
  /\ last' = Call("ResultSet", r, TRUE)
  /\ UNCHANGED <<keys, data, results, adds, traced>>
  /\ UNCHANGED ocivars
  /\ UNCHANGED cfvars

\* the caller appends to the slice it got: results = append(results, r)
\* (cloudflaretunnel.go: Ingress = append(Ingress, catchAll))
ResultAppend(r) ==
  /\ results.arr # 0
  /\ results.len < Cardinality(Hostnames) + MaxAppends
  /\ LET a == AppendOne(heap, results, r, ZeroRule) IN
       /\ results' = a.slice
       /\ heap' = Live(a.heap, keys, a.slice)
  /\ last' = Call("ResultAppend", r, TRUE)
  /\ UNCHANGED <<keys, data, adds, traced>>
  /\ UNCHANGED ocivars
  /\ UNCHANGED cfvars

----------------------------------------------------------------------------
(***************************************************************************)
(* The OCI provider: data                                                  *)
(***************************************************************************)

\* DNS names are sequences of labels, the top-level domain first
FooCom == <<"com", "foo">>
BarCom == <<"com", "bar">>
AFooCom == <<"com", "foo", "a">>
BBarCom == <<"com", "bar", "b">>
XOtherOrg == <<"org", "other", "x">>

\* dns.GetGetZoneScopeEnumValues()
Scopes == <<"GLOBAL", "PRIVATE">>

\* the zones of the vendor's compartment; pos is the zone's place in the
\* listing of its scope
VendorZones ==
  {[Id |-> "ocid.z1", Name |-> FooCom, Scope |-> "GLOBAL", pos |-> 1],
   [Id |-> "ocid.z2", Name |-> BarCom, Scope |-> "GLOBAL", pos |-> 2],
   [Id |-> "ocid.z3", Name |-> AFooCom, Scope |-> "PRIVATE", pos |-> 1]}

\* the records the vendor holds for a zone, page by page
VendorRecords(zoneId) ==
  IF zoneId = "ocid.z1"
  THEN << <<[Domain |-> AFooCom, Rtype |-> "A", Ttl |-> 300, Rdata |-> "10.0.0.1"]>>,
          <<[Domain |-> FooCom, Rtype |-> "PTR", Ttl |-> 300, Rdata |-> "ptr"]>> >>
  ELSE IF zoneId = "ocid.z2"
  THEN << <<[Domain |-> BBarCom, Rtype |-> "CNAME", Ttl |-> 60, Rdata |-> "foo.com."]>> >>
  ELSE << <<>> >>

\* endpoint.Endpoint; a target is a host name and whether it ends in a dot
Endpoints ==
  {[DNSName |-> AFooCom, RecordType |-> "A", RecordTTL |-> 0,
    Targets |-> <<[host |-> "10.0.0.1", dot |-> FALSE]>>],
   [DNSName |-> BBarCom, RecordType |-> "CNAME", RecordTTL |-> 60,
    Targets |-> <<[host |-> "foo.com", dot |-> FALSE]>>],
   [DNSName |-> XOtherOrg, RecordType |-> "PTR", RecordTTL |-> 0,
    Targets |-> <<[host |-> "ptr", dot |-> FALSE]>>]}

\* plan.Changes with at most MaxEndpoints endpoints in all
ChangeSets ==
  UNION {[Create : [1..n[1] -> Endpoints],
          UpdateNew : [1..n[2] -> Endpoints],
          UpdateOld : [1..n[3] -> Endpoints],
          Delete : [1..n[4] -> Endpoints]] :
           n \in {m \in (0..MaxEndpoints) \X (0..MaxEndpoints)
                           \X (0..MaxEndpoints) \X (0..MaxEndpoints) :
                    m[1] + m[2] + m[3] + m[4] <= MaxEndpoints}}

NoChanges == [Create |-> <<>>, UpdateNew |-> <<>>, UpdateOld |-> <<>>, Delete |-> <<>>]

\* const ociRecordTTL
ociRecordTTL == 300

\* the orders in which a range over a Go map with the keys S may visit them
OrdersOf(S) ==
  {o \in [1..Cardinality(S) -> S] :
     \A i, j \in 1..Cardinality(S) : o[i] = o[j] => i = j}

----------------------------------------------------------------------------
(***************************************************************************)
(* Collaborators of the OCI provider                                       *)
(***************************************************************************)

\* zone is name or an ancestor of name
IsSuffix(zone, name) ==
  Len(zone) <= Len(name) /\ SubSeq(name, 1, Len(zone)) = zone

\* endpoint.DomainFilter.Match: no filter matches everything
DomainMatch(filter, name) ==
  filter = {} \/ \E f \in filter : IsSuffix(f, name)

\* provider.ZoneIDFilter.Match: no filter matches everything
ZoneIDMatch(filter, id) == filter = {} \/ id \in filter

\* provider.SupportedRecordType
SupportedRecordType(t) == t \in {"A", "AAAA", "CNAME", "SRV", "TXT", "NS"}

\* provider.EnsureTrailingDot
EnsureTrailingDot(t) == [t EXCEPT !.dot = TRUE]

\* endpoint.TTL.IsConfigured
IsConfigured(ttl) == ttl > 0

\* provider.ZoneIDName.FindZone over the zones' names: the id of the zone
\* with the longest name that is a suffix of the domain, "" when none is
FindZone(zones, domain) ==
  LET cand == {id \in DOMAIN zones : IsSuffix(zones[id].Name, domain)} IN
  IF cand = {} THEN ""
  ELSE CHOOSE id \in cand :
         \A o \in cand : Len(zones[o].Name) <= Len(zones[id].Name)

\* zoneCache.Expired
Expired(c, t) == ~c.populated \/ t - c.age > c.duration

\* zoneCache.Reset
Reset(c, zones, t) ==
  [c EXCEPT !.populated = TRUE, !.age = t, !.zones = zones]

\* the vendor's ListZones: page is the token of the page wanted, 0 for none;
\* of n pages, page k holds the zone at place k, the last page all the rest
ListZones(v, scope, page) ==
  LET n == v[scope]
      k == IF page = 0 THEN 1 ELSE page
  IN [Items |-> {z \in VendorZones :
                   z.Scope = scope /\ (IF z.pos < n THEN z.pos ELSE n) = k},
      OpcNextPage |-> IF k < n THEN k + 1 ELSE 0]

\* the vendor's GetZoneRecords
GetZoneRecords(zoneId, page) ==
  LET pages == VendorRecords(zoneId)
      k == IF page = 0 THEN 1 ELSE page
  IN [Items |-> pages[k],
      OpcNextPage |-> IF k < Len(pages) THEN k + 1 ELSE 0]

\* one API call as the call log keeps it
ApiCall(api, scope, zone, page, items, ok) ==
  [api |-> api, scope |-> scope, zone |-> zone, page |-> page,
   items |-> items, ok |-> ok]

----------------------------------------------------------------------------
(***************************************************************************)
(* The OCI provider                                                        *)
(***************************************************************************)

\* NewOCIProvider: the zone cache holds the configured duration and nothing else
NewZoneCache(duration) ==
  [populated |-> FALSE, age |-> 0, duration |-> duration, zones |-> <<>>]

\* the loop over resp.Items in addPaginatedZones
MergeItems(p, zones, items) ==
  LET match == {z \in items : DomainMatch(p.domainFilter, z.Name)
                              /\ ZoneIDMatch(p.zoneIDFilter, z.Id)}
  IN [id \in DOMAIN zones \cup {z.Id : z \in match} |->
        IF \E z \in match : z.Id = id
        THEN LET z == CHOOSE z \in match : z.Id = id IN [Id |-> z.Id, Name |-> z.Name]
        ELSE zones[id]]

\* addPaginatedZones that reads the first page only
AddPaginatedZones_OnePage(p, v, zones, scope, page, calls, failAt) ==
  IF Len(calls) + 1 = failAt
  THEN [err |-> TRUE, zones |-> zones,
        calls |-> Append(calls, ApiCall("ListZones", scope, "", page, <<>>, FALSE))]
  ELSE [err |-> FALSE, zones |-> MergeItems(p, zones, ListZones(v, scope, page).Items),
        calls |-> Append(calls, ApiCall("ListZones", scope, "", page, <<>>, TRUE))]

\* OCIProvider.addPaginatedZones from the page with token `page` on; the
\* call numbered failAt of the invocation fails
RECURSIVE AddPaginatedZones(_, _, _, _, _, _, _)
AddPaginatedZones(p, v, zones, scope, page, calls, failAt) ==
  IF Len(calls) + 1 = failAt
  THEN [err |-> TRUE, zones |-> zones,
        calls |-> Append(calls, ApiCall("ListZones", scope, "", page, <<>>, FALSE))]
  ELSE LET resp == ListZones(v, scope, page)
           zs == MergeItems(p, zones, resp.Items)
           cs == Append(calls, ApiCall("ListZones", scope, "", page, <<>>, TRUE))
       IN IF resp.OpcNextPage = 0
          THEN [err |-> FALSE, zones |-> zs, calls |-> cs]
          ELSE AddPaginatedZones(p, v, zs, scope, resp.OpcNextPage, cs, failAt)

\* the scopes zones() lists
ListedScopes(p) == IF p.zoneScope = "" THEN Scopes ELSE <<p.zoneScope>>

\* the loop over the scopes that goes on after a failed page fetch
ListScopes_GoOn(p, v, failAt) ==
  LET scopes == ListedScopes(p)
      F[i \in 0..Len(scopes)] ==
        IF i = 0 THEN [err |-> FALSE, zones |-> <<>>, calls |-> <<>>]
        ELSE [AddPaginatedZones(p, v, F[i - 1].zones, scopes[i], 0,
                                F[i - 1].calls, failAt) EXCEPT !.err = FALSE]
  IN F[Len(scopes)]

\* the loop over the scopes in zones(): the first error ends it
ListScopes(p, v, failAt) ==
  LET scopes == ListedScopes(p)
      F[i \in 0..Len(scopes)] ==
        IF i = 0 THEN [err |-> FALSE, zones |-> <<>>, calls |-> <<>>]
        ELSE IF F[i - 1].err THEN F[i - 1]
        ELSE AddPaginatedZones(p, v, F[i - 1].zones, scopes[i], 0,
                               F[i - 1].calls, failAt)
  IN F[Len(scopes)]

\* zones() that lists the zones without looking at the cache
ZonesResult_NoCache(p, cache, v, t, failAt) ==
  LET r == ListScopes(p, v, failAt) IN
  IF r.err
  THEN [zones |-> <<>>, isNil |-> TRUE, err |-> TRUE,
        calls |-> r.calls, cache |-> cache]
  ELSE [zones |-> r.zones, isNil |-> FALSE, err |-> FALSE,
        calls |-> r.calls, cache |-> Reset(cache, r.zones, t)]

\* zones() that never resets the cache
ZonesResult_NoReset(p, cache, v, t, failAt) ==
  LET r == ZonesResult_NoCache(p, cache, v, t, failAt) IN
  IF ~Expired(cache, t)
  THEN [zones |-> cache.zones, isNil |-> FALSE, err |-> FALSE,
        calls |-> <<>>, cache |-> cache]
  ELSE [r EXCEPT !.cache = cache]

\* OCIProvider.zones: what it returns (zones, isNil, err), the calls it
\* issues and the cache it leaves
ZonesResult(p, cache, v, t, failAt) ==
  IF ~Expired(cache, t)
  THEN [zones |-> cache.zones, isNil |-> FALSE, err |-> FALSE,
        calls |-> <<>>, cache |-> cache]
  ELSE LET r == ListScopes(p, v, failAt)
       IN IF r.err
          THEN [zones |-> <<>>, isNil |-> TRUE, err |-> TRUE,
                calls |-> r.calls, cache |-> cache]
          ELSE [zones |-> r.zones, isNil |-> FALSE, err |-> FALSE,
                calls |-> r.calls, cache |-> Reset(cache, r.zones, t)]

\* the loop over resp.Items in Records
RecordEndpoints(items) ==
  LET F[i \in 0..Len(items)] ==
        IF i = 0 THEN <<>>
        ELSE IF ~SupportedRecordType(items[i].Rtype) THEN F[i - 1]
        ELSE Append(F[i - 1],
                    [DNSName |-> items[i].Domain, RecordType |-> items[i].Rtype,
                     RecordTTL |-> items[i].Ttl,
                     Targets |-> <<[host |-> items[i].Rdata, dot |-> FALSE]>>])
  IN F[Len(items)]

\* the page loop of Records for one zone
RECURSIVE ZoneRecordPages(_, _, _, _, _)
ZoneRecordPages(zoneId, page, eps, calls, failAt) ==
  IF Len(calls) + 1 = failAt
  THEN [err |-> TRUE, endpoints |-> eps,
        calls |-> Append(calls, ApiCall("GetZoneRecords", "", zoneId, page, <<>>, FALSE))]
  ELSE LET resp == GetZoneRecords(zoneId, page)
           es == eps \o RecordEndpoints(resp.Items)
           cs == Append(calls, ApiCall("GetZoneRecords", "", zoneId, page, <<>>, TRUE))
       IN IF resp.OpcNextPage = 0
          THEN [err |-> FALSE, endpoints |-> es, calls |-> cs]
          ELSE ZoneRecordPages(zoneId, resp.OpcNextPage, es, cs, failAt)

\* OCIProvider.Records; order is the order in which the range over the zones
\* map visits the zone ids
RecordsResult(p, cache, v, t, failAt, order) ==
  LET z == ZonesResult(p, cache, v, t, failAt) IN
  IF z.err
  THEN [z EXCEPT !.zones = <<>>] @@ [endpoints |-> <<>>]
  ELSE LET F[i \in 0..Len(order)] ==
             IF i = 0 THEN [err |-> FALSE, endpoints |-> <<>>, calls |-> z.calls]
             ELSE IF F[i - 1].err THEN F[i - 1]
             ELSE ZoneRecordPages(order[i], 0, F[i - 1].endpoints,
                                  F[i - 1].calls, failAt)
           r == F[Len(order)]
       IN [zones |-> z.zones, isNil |-> r.err, err |-> r.err, calls |-> r.calls,
           cache |-> z.cache,
           endpoints |-> IF r.err THEN <<>> ELSE r.endpoints]

\* newRecordOperation
NewRecordOperation(ep, opType) ==
  LET targets == [i \in 1..Len(ep.Targets) |->
                    IF i = 1 /\ ep.RecordType = "CNAME"
                    THEN EnsureTrailingDot(ep.Targets[i]) ELSE ep.Targets[i]]
  IN [Domain |-> ep.DNSName, Rdata |-> targets,
      Ttl |-> IF IsConfigured(ep.RecordTTL) THEN ep.RecordTTL ELSE ociRecordTTL,
      Rtype |-> ep.RecordType, Operation |-> opType]

\* newFilteredRecordOperations that lets every endpoint through
NewFilteredRecordOperations_NoFilter(p, endpoints, opType) ==
  [i \in 1..Len(endpoints) |-> NewRecordOperation(endpoints[i], opType)]

\* OCIProvider.newFilteredRecordOperations
NewFilteredRecordOperations(p, endpoints, opType) ==
  LET F[i \in 0..Len(endpoints)] ==
        IF i = 0 THEN <<>>
        ELSE IF DomainMatch(p.domainFilter, endpoints[i].DNSName)
        THEN Append(F[i - 1], NewRecordOperation(endpoints[i], opType))
        ELSE F[i - 1]
  IN F[Len(endpoints)]

\* operationsByZone that gives an operation without a zone to every zone
OperationsByZone_NoDrop(zones, ops) ==
  LET F[i \in 0..Len(ops)] ==
        IF i = 0 THEN [id \in DOMAIN zones |-> <<>>]
        ELSE LET zoneID == FindZone(zones, ops[i].Domain) IN
             IF zoneID # ""
             THEN [F[i - 1] EXCEPT ![zoneID] = Append(@, ops[i])]
             ELSE [id \in DOMAIN zones |-> Append(F[i - 1][id], ops[i])]
      all == F[Len(ops)]
  IN [id \in {x \in DOMAIN all : Len(all[x]) # 0} |-> all[id]]

\* operationsByZone that keeps the zones without an operation
OperationsByZone_KeepEmpty(zones, ops) ==
  LET F[i \in 0..Len(ops)] ==
        IF i = 0 THEN [id \in DOMAIN zones |-> <<>>]
        ELSE LET zoneID == FindZone(zones, ops[i].Domain) IN
             IF zoneID # ""
             THEN [F[i - 1] EXCEPT ![zoneID] = Append(@, ops[i])]
             ELSE F[i - 1]
  IN F[Len(ops)]

\* operationsByZone
OperationsByZone(zones, ops) ==
  LET F[i \in 0..Len(ops)] ==
        IF i = 0 THEN [id \in DOMAIN zones |-> <<>>]
        ELSE LET zoneID == FindZone(zones, ops[i].Domain) IN
             IF zoneID # ""
             THEN [F[i - 1] EXCEPT ![zoneID] = Append(@, ops[i])]
             ELSE F[i - 1]
      all == F[Len(ops)]
  IN [id \in {x \in DOMAIN all : Len(all[x]) # 0} |-> all[id]]

\* the operation list built from Delete first and Create last
ChangeOperations_DeleteFirst(p, ch) ==
  NewFilteredRecordOperations(p, ch.Delete, "REMOVE")
    \o NewFilteredRecordOperations(p, ch.UpdateOld, "REMOVE")
    \o NewFilteredRecordOperations(p, ch.UpdateNew, "ADD")
    \o NewFilteredRecordOperations(p, ch.Create, "ADD")

\* the operation list ApplyChanges builds from the changes
ChangeOperations(p, ch) ==
  NewFilteredRecordOperations(p, ch.Create, "ADD")
    \o NewFilteredRecordOperations(p, ch.UpdateNew, "ADD")
    \o NewFilteredRecordOperations(p, ch.UpdateOld, "REMOVE")
    \o NewFilteredRecordOperations(p, ch.Delete, "REMOVE")

\* the patch loop that goes on after a failed PatchZoneRecords
PatchZones_GoOn(byZone, order, calls, failAt) ==
  LET F[i \in 0..Len(order)] ==
        IF i = 0 THEN [err |-> FALSE, calls |-> calls]
        ELSE [err |-> F[i - 1].err \/ Len(F[i - 1].calls) + 1 = failAt,
              calls |-> Append(F[i - 1].calls,
                               ApiCall("PatchZoneRecords", "", order[i], 0,
                                       byZone[order[i]],
                                       Len(F[i - 1].calls) + 1 # failAt))]
  IN F[Len(order)]

\* the patch loop of ApplyChanges over opsByZone, visited in `order`
PatchZones(byZone, order, calls, failAt) ==
  LET F[i \in 0..Len(order)] ==
        IF i = 0 THEN [err |-> FALSE, calls |-> calls]
        ELSE IF F[i - 1].err THEN F[i - 1]
        ELSE IF Len(F[i - 1].calls) + 1 = failAt
        THEN [err |-> TRUE,
              calls |-> Append(F[i - 1].calls,
                               ApiCall("PatchZoneRecords", "", order[i], 0,
                                       byZone[order[i]], FALSE))]
        ELSE [err |-> FALSE,
              calls |-> Append(F[i - 1].calls,
                               ApiCall("PatchZoneRecords", "", order[i], 0,
                                       byZone[order[i]], TRUE))]
  IN F[Len(order)]

\* ApplyChanges that patches the zones in dry-run mode too
ApplyOperations_NoDryRun(p, cache, v, t, ops, failAt, order) ==
  LET z == ZonesResult(p, cache, v, t, failAt) IN
  IF z.err
  THEN [err |-> TRUE, calls |-> z.calls, cache |-> z.cache, ops |-> ops,
        byZone |-> <<>>, zones |-> <<>>, listed |-> TRUE]
  ELSE LET byZone == OperationsByZone(z.zones, ops)
           r == PatchZones(byZone, order, z.calls, failAt)
       IN [err |-> r.err, calls |-> r.calls, cache |-> z.cache, ops |-> ops,
           byZone |-> byZone, zones |-> z.zones, listed |-> TRUE]

\* OCIProvider.ApplyChanges from `zones, err := p.zones(ctx)` on
ApplyOperations(p, cache, v, t, ops, failAt, order) ==
  LET z == ZonesResult(p, cache, v, t, failAt) IN
  IF z.err
  THEN [err |-> TRUE, calls |-> z.calls, cache |-> z.cache, ops |-> ops,
        byZone |-> <<>>, zones |-> <<>>, listed |-> TRUE]
  ELSE LET byZone == OperationsByZone(z.zones, ops) IN
       IF p.dryRun
       THEN [err |-> FALSE, calls |-> z.calls, cache |-> z.cache, ops |-> ops,
             byZone |-> byZone, zones |-> z.zones, listed |-> TRUE]
       ELSE LET r == PatchZones(byZone, order, z.calls, failAt) IN
            [err |-> r.err, calls |-> r.calls, cache |-> z.cache, ops |-> ops,
             byZone |-> byZone, zones |-> z.zones, listed |-> TRUE]

\* ApplyChanges that fetches the zones whether or not there are operations
ApplyResult_NoEarlyReturn(p, cache, v, t, ch, failAt, order) ==
  ApplyOperations(p, cache, v, t, ChangeOperations(p, ch), failAt, order)

\* OCIProvider.ApplyChanges
ApplyResult(p, cache, v, t, ch, failAt, order) ==
  LET ops == ChangeOperations(p, ch) IN
  IF Len(ops) = 0
  THEN [err |-> FALSE, calls |-> <<>>, cache |-> cache, ops |-> ops,
        byZone |-> <<>>, zones |-> <<>>, listed |-> FALSE]
  ELSE ApplyOperations(p, cache, v, t, ops, failAt, order)

\* a call that ran p.zones(ctx) on an expired cache and saw no ListZones fail
\* has listed the zones afresh
Relisted(r) ==
  /\ r.listed
  /\ Expired(zoneCache, now)
  /\ \A i \in 1..Len(r.calls) : r.calls[i].api = "ListZones" => r.calls[i].ok

\* the record of a provider call made in the current state
OCall(op, r) ==
  [op |-> op, err |-> r.err, calls |-> r.calls, zones |-> r.zones,
   isNil |-> r.isNil, endpoints |-> r.endpoints, ops |-> r.ops,
   byZone |-> r.byZone, listed |-> r.listed,
   expired |-> Expired(zoneCache, now), pre |-> zoneCache,
   resetAt |-> IF Relisted(r) THEN now ELSE ocall.resetAt]

NoCall ==
  [op |-> "New", err |-> FALSE, calls |-> <<>>, zones |-> <<>>,
   isNil |-> FALSE, endpoints |-> <<>>, ops |-> <<>>,
   byZone |-> <<>>, listed |-> FALSE,
   expired |-> TRUE, pre |-> NewZoneCache(0), resetAt |-> -1]

\* the provider is between two calls
Idle == ocall.op = "New"

\* time passes between two calls
Tick ==
  /\ Idle
  /\ now < MaxTime
  /\ now' = now + 1
  /\ UNCHANGED <<cfg, vendor, changes, zoneCache, ocall>>
  /\ UNCHANGED omvars
  /\ UNCHANGED cfvars

\* fault injection: no call is to fail, or the call numbered failAt was issued
Injected(r, failAt) == failAt = 0 \/ Len(r.calls) >= failAt

\* a call of p.zones(ctx); the API call numbered failAt fails (0: none does)
Zones(failAt) ==
  LET r == ZonesResult(cfg, zoneCache, vendor, now, failAt) IN
  /\ Idle
  /\ Injected(r, failAt)
  /\ zoneCache' = r.cache
  /\ ocall' = OCall("zones",
                    r @@ [endpoints |-> <<>>, ops |-> <<>>, byZone |-> <<>>,
                          listed |-> TRUE])
  /\ UNCHANGED <<cfg, vendor, changes, now>>
  /\ UNCHANGED omvars
  /\ UNCHANGED cfvars

\* a call of p.Records(ctx)
Records(failAt) ==
  /\ Idle
  /\ \E order \in OrdersOf(DOMAIN ZonesResult(cfg, zoneCache, vendor, now, failAt).zones) :
       LET r == RecordsResult(cfg, zoneCache, vendor, now, failAt, order) IN
       /\ Injected(r, failAt)
       /\ zoneCache' = r.cache
       /\ ocall' = OCall("Records",
                         r @@ [ops |-> <<>>, byZone |-> <<>>, listed |-> TRUE])
       /\ UNCHANGED <<cfg, vendor, changes, now>>
       /\ UNCHANGED omvars
       /\ UNCHANGED cfvars

\* a call of p.ApplyChanges(ctx, changes)
ApplyChanges(failAt) ==
  /\ Idle
  /\ \E order \in OrdersOf(DOMAIN ApplyResult(cfg, zoneCache, vendor, now, changes,
                                              failAt, <<>>).byZone) :
       LET r == ApplyResult(cfg, zoneCache, vendor, now, changes, failAt, order) IN
       /\ Injected(r, failAt)
       /\ zoneCache' = r.cache
       /\ ocall' = OCall("ApplyChanges",
                         r @@ [isNil |-> r.err, endpoints |-> <<>>])
       /\ UNCHANGED <<cfg, vendor, changes, now>>
       /\ UNCHANGED omvars
       /\ UNCHANGED cfvars

\* the call returns to its caller: the provider keeps its zone cache and
\* the model the time of the last Reset
Return ==
  /\ ~Idle
  /\ ocall' = [NoCall EXCEPT !.resetAt = ocall.resetAt]
  /\ UNCHANGED <<cfg, vendor, changes, zoneCache, now>>
  /\ UNCHANGED omvars
  /\ UNCHANGED cfvars

----------------------------------------------------------------------------
(***************************************************************************)
(* The Cloudflare Tunnel provider: data                                    *)
(***************************************************************************)

\* the labels of a DNS name, the top-level domain first
Labels(name) ==
  CASE name = "a.foo.com" -> AFooCom
    [] name = "b.foo.com" -> <<"com", "foo", "b">>
    [] OTHER -> <<>>

\* convertHttps on the targets in use
ConvertHttps(target) ==
  CASE target = "svc1" -> "https://svc1:443"
    [] target = "svc2" -> "https://svc2:443"
    [] OTHER -> "https://:443"

\* fmt.Sprintf("%v.cfargotunnel.com", p.tunnelId)
TunnelContent == "tunnel.cfargotunnel.com"

\* the zones of the vendor's account, in listing order: foo.com and its
\* subdomain b.foo.com, which is a zone of its own
TunnelZoneList ==
  <<[ID |-> "cf.z1", Name |-> FooCom],
    [ID |-> "cf.z2", Name |-> <<"com", "foo", "b">>]>>

\* the DNS records the vendor holds for its zones, page by page
TunnelRecordSets ==
  [z \in {"cf.z1", "cf.z2"} |->
     IF z = "cf.z1"
     THEN << <<[ID |-> "r1", Name |-> "a.foo.com", Type |-> "A"],
               [ID |-> "r2", Name |-> "a.foo.com", Type |-> "CNAME"]>>,
             <<[ID |-> "r3", Name |-> "a.foo.com", Type |-> "CNAME"],
               [ID |-> "r4", Name |-> "b.foo.com", Type |-> "TXT"]>> >>
     ELSE << <<[ID |-> "r5", Name |-> "b.foo.com", Type |-> "TXT"]>> >>]

\* the records of a page of a listing
PageRecords ==
  {[ID |-> "r1", Name |-> "a.foo.com", Type |-> "A"],
   [ID |-> "r2", Name |-> "a.foo.com", Type |-> "CNAME"]}

\* the listings of a zone: one to MaxPages pages of at most MaxPageLen records
PageLayouts ==
  LET page == UNION {[1..n -> PageRecords] : n \in 0..MaxPageLen}
  IN UNION {[1..n -> page] : n \in 1..MaxPages}

\* the pages of DNS records the vendor returns for a zone
TunnelRecordPages(zoneID) ==
  IF zoneID \in DOMAIN cf.Records THEN cf.Records[zoneID] ELSE << <<>> >>

\* ingress rules of a tunnel configuration
RuleA == [Hostname |-> "a.foo.com", Service |-> "https://svc1:443"]
RuleB == [Hostname |-> "b.foo.com", Service |-> "https://svc1:443"]
\* a rule without a hostname that is not the last one (it matches by path)
PathRule == [Hostname |-> "", Service |-> "https://svc2:443"]

\* the ingress lists a tunnel may hold before the provider's first call
TunnelConfigs ==
  {<<>>,
   <<RuleB, RuleA, CatchAllRule>>,
   <<RuleA, PathRule, RuleB, CatchAllRule>>}

\* endpoint.Endpoint as the Cloudflare provider reads it
TunnelEndpoints ==
  {[DNSName |-> "a.foo.com", RecordType |-> "A", Targets |-> <<"svc2">>],
   [DNSName |-> "b.foo.com", RecordType |-> "A", Targets |-> <<"svc1">>],
   [DNSName |-> "b.foo.com", RecordType |-> "CNAME", Targets |-> <<"svc2">>]}

\* plan.Changes with at most MaxEndpoints endpoints in all
TunnelChangeSets ==
  UNION {[Create : [1..n[1] -> TunnelEndpoints],
          UpdateNew : [1..n[2] -> TunnelEndpoints],
          UpdateOld : [1..n[3] -> TunnelEndpoints],
          Delete : [1..n[4] -> TunnelEndpoints]] :
           n \in {m \in (0..MaxEndpoints) \X (0..MaxEndpoints)
                           \X (0..MaxEndpoints) \X (0..MaxEndpoints) :
                    m[1] + m[2] + m[3] + m[4] <= MaxEndpoints}}

----------------------------------------------------------------------------
(***************************************************************************)
(* The Cloudflare Tunnel provider                                          *)
(***************************************************************************)

\* endpoint.NewEndpoint(hostname, endpoint.RecordTypeA, service)
NewEndpoint(hostname, recordType, target) ==
  [DNSName |-> hostname, RecordType |-> recordType, Targets |-> <<target>>]

\* CloudFlareTunnelProvider.Records: one endpoint for every rule of
\* configResult.Config.Ingress
TunnelRecordsResult(v, failAt) ==
  IF failAt = 1
  THEN [err |-> TRUE, isNil |-> TRUE, endpoints |-> <<>>,
        calls |-> <<ApiCall("GetTunnelConfiguration", "", "", 0, <<>>, FALSE)>>]
  ELSE [err |-> FALSE, isNil |-> FALSE,
        endpoints |-> [i \in 1..Len(v.Ingress) |->
                         NewEndpoint(v.Ingress[i].Hostname, "A", v.Ingress[i].Service)],
        calls |-> <<ApiCall("GetTunnelConfiguration", "", "", 0, <<>>, TRUE)>>]

\* CloudFlareTunnelProvider.Zones
TunnelZones(p, calls, failAt) ==
  IF Len(p.zoneIDFilter) > 0 /\ p.zoneIDFilter[1] # ""
  THEN LET F[i \in 0..Len(p.zoneIDFilter)] ==
             IF i = 0 THEN [err |-> FALSE, result |-> <<>>, calls |-> calls]
             ELSE IF F[i - 1].err THEN F[i - 1]
             ELSE IF Len(F[i - 1].calls) + 1 = failAt
             THEN [err |-> TRUE, result |-> F[i - 1].result,
                   calls |-> Append(F[i - 1].calls,
                                    ApiCall("ZoneDetails", "", p.zoneIDFilter[i], 0,
                                            <<>>, FALSE))]
             ELSE [err |-> FALSE,
                   result |-> F[i - 1].result \o
                                SelectSeq(TunnelZoneList,
                                          LAMBDA z : z.ID = p.zoneIDFilter[i]),
                   calls |-> Append(F[i - 1].calls,
                                    ApiCall("ZoneDetails", "", p.zoneIDFilter[i], 0,
                                            <<>>, TRUE))]
       IN F[Len(p.zoneIDFilter)]
  ELSE IF Len(calls) + 1 = failAt
  THEN [err |-> TRUE, result |-> <<>>,
        calls |-> Append(calls, ApiCall("ListZonesContext", "", "", 0, <<>>, FALSE))]
  ELSE [err |-> FALSE,
        result |-> SelectSeq(TunnelZoneList,
                             LAMBDA z : DomainMatch(p.domainFilter, z.Name)),
        calls |-> Append(calls, ApiCall("ListZonesContext", "", "", 0, <<>>, TRUE))]

\* provider.ZoneIDName.Add for every zone of the list
MapperAdd(mapper, zones) ==
  [id \in DOMAIN mapper \cup {zones[i].ID : i \in 1..Len(zones)} |->
     IF \E i \in 1..Len(zones) : zones[i].ID = id
     THEN [Name |-> (CHOOSE z \in {zones[i] : i \in 1..Len(zones)} : z.ID = id).Name]
     ELSE mapper[id]]

\* CloudFlareTunnelProvider.updateZoneIdMapper
UpdateZoneIdMapper(p, calls, failAt) ==
  LET z == TunnelZones(p, calls, failAt) IN
  IF z.err
  THEN [err |-> TRUE, mapper |-> p.zoneNameIDMapper, calls |-> z.calls]
  ELSE [err |-> FALSE, mapper |-> MapperAdd(p.zoneNameIDMapper, z.result),
        calls |-> z.calls]

\* the vendor's ListDNSRecords for the page numbered `page`
ListDNSRecords(zoneID, page) ==
  LET pages == TunnelRecordPages(zoneID) IN
  [records |-> pages[page], Page |-> page, TotalPages |-> Len(pages)]

\* cloudflare.ResultInfo.Next: the page number advanced by one
ResultInfoNext(resultInfo) == [resultInfo EXCEPT !.Page = @ + 1]

\* cloudflare.ResultInfo.Done: the page number is past the last page
ResultInfoDone(resultInfo) ==
  resultInfo.Page > 1 /\ resultInfo.Page > resultInfo.TotalPages

\* the listing stops after its first page
MorePages_Never(resultInfo) == FALSE

\* params.ResultInfo = resultInfo.Next(); the loop goes on unless it is Done()
MorePages(resultInfo) == ~ResultInfoDone(ResultInfoNext(resultInfo))

\* CloudFlareTunnelProvider.listDNSRecordsWithAutoPagination from the page
\* numbered `page` on
RECURSIVE ListDNSRecordsWithAutoPagination(_, _, _, _, _)
ListDNSRecordsWithAutoPagination(zoneID, page, records, calls, failAt) ==
  IF Len(calls) + 1 = failAt
  THEN [err |-> TRUE, records |-> <<>>,
        calls |-> Append(calls, ApiCall("ListDNSRecords", "", zoneID, page, <<>>, FALSE))]
  ELSE LET resp == ListDNSRecords(zoneID, page)
           rs == records \o resp.records
           cs == Append(calls, ApiCall("ListDNSRecords", "", zoneID, page, <<>>, TRUE))
       IN IF MorePages(resp)
          THEN ListDNSRecordsWithAutoPagination(zoneID, ResultInfoNext(resp).Page,
                                                rs, cs, failAt)
          ELSE [err |-> FALSE, records |-> rs, calls |-> cs]

\* the id of the last record of the name and type, not of the first
GetRecordID_LastMatch(records, name, type) ==
  LET hit == {i \in 1..Len(records) :
                records[i].Name = name /\ records[i].Type = type}
  IN IF hit = {} THEN ""
     ELSE records[CHOOSE i \in hit : \A j \in hit : i >= j].ID

\* CloudFlareTunnelProvider.getRecordID
GetRecordID(records, name, type) ==
  LET hit == {i \in 1..Len(records) :
                records[i].Name = name /\ records[i].Type = type}
  IN IF hit = {} THEN ""
     ELSE records[CHOOSE i \in hit : \A j \in hit : i <= j].ID

\* util.NewOrderedMap(cap) as a value
EmptyMap(cap) ==
  LET m == MakeSlice(<<>>, cap, "") IN
  [heap |-> m.heap, keys |-> m.slice, data |-> <<>>]

\* the loop over oldConfigResult.Config.Ingress: the rules up to the first one
\* without a hostname go into the map, that one is the catch-all
LoadIngress(ingress) ==
  LET F[i \in 0..Len(ingress)] ==
        IF i = 0
        THEN [m |-> EmptyMap(Len(ingress)), catchAll |-> ZeroRule, done |-> FALSE]
        ELSE IF F[i - 1].done THEN F[i - 1]
        ELSE IF ingress[i].Hostname = ""
        THEN [F[i - 1] EXCEPT !.catchAll = ingress[i], !.done = TRUE]
        ELSE [F[i - 1] EXCEPT
                !.m = AddResult(F[i - 1].m.heap, F[i - 1].m.keys, F[i - 1].m.data,
                                ingress[i])]
  IN F[Len(ingress)]

\* the ingress rule ApplyChanges builds from a Create or UpdateNew endpoint
EndpointRule(ep) ==
  [Hostname |-> ep.DNSName, Service |-> ConvertHttps(ep.Targets[1])]

\* p.zoneNameIDMapper.FindZone(name)
TunnelFindZone(mapper, name) == FindZone(mapper, Labels(name))

\* the loop over changes.Create with the zone looked up first: an endpoint
\* without a zone adds no rule
CreateLoop_SkipNoZone(mapper, m, endpoints) ==
  LET F[i \in 0..Len(endpoints)] ==
        IF i = 0 THEN [m |-> m, params |-> <<>>]
        ELSE LET ep == endpoints[i]
                 st == F[i - 1]
                 zoneID == TunnelFindZone(mapper, ep.DNSName)
                 added == AddResult(st.m.heap, st.m.keys, st.m.data, EndpointRule(ep))
             IN IF ep.RecordType # "A" \/ zoneID = "" THEN st
                ELSE [m |-> added,
                      params |-> Append(st.params,
                                        [Name |-> ep.DNSName, Type |-> "CNAME",
                                         Content |-> TunnelContent, ZoneID |-> zoneID])]
  IN F[Len(endpoints)]

\* the loop over changes.Create without the test of the record type
CreateLoop_AnyType(mapper, m, endpoints) ==
  LET F[i \in 0..Len(endpoints)] ==
        IF i = 0 THEN [m |-> m, params |-> <<>>]
        ELSE LET ep == endpoints[i]
                 st == F[i - 1]
                 zoneID == TunnelFindZone(mapper, ep.DNSName)
                 added == AddResult(st.m.heap, st.m.keys, st.m.data, EndpointRule(ep))
             IN IF zoneID = "" THEN [st EXCEPT !.m = added]
                ELSE [m |-> added,
                      params |-> Append(st.params,
                                        [Name |-> ep.DNSName, Type |-> "CNAME",
                                         Content |-> TunnelContent, ZoneID |-> zoneID])]
  IN F[Len(endpoints)]

\* the loop over changes.Create: the rule goes into the map, the DNS create
\* is queued when the name has a zone
CreateLoop(mapper, m, endpoints) ==
  LET F[i \in 0..Len(endpoints)] ==
        IF i = 0 THEN [m |-> m, params |-> <<>>]
        ELSE LET ep == endpoints[i]
                 st == F[i - 1]
                 zoneID == TunnelFindZone(mapper, ep.DNSName)
                 added == AddResult(st.m.heap, st.m.keys, st.m.data, EndpointRule(ep))
             IN IF ep.RecordType # "A" THEN st
                ELSE IF zoneID = "" THEN [st EXCEPT !.m = added]
                ELSE [m |-> added,
                      params |-> Append(st.params,
                                        [Name |-> ep.DNSName, Type |-> "CNAME",
                                         Content |-> TunnelContent, ZoneID |-> zoneID])]
  IN F[Len(endpoints)]

\* the loop over changes.UpdateNew: a failed record listing ends ApplyChanges
UpdateLoop(mapper, m, endpoints, calls, failAt) ==
  LET F[i \in 0..Len(endpoints)] ==
        IF i = 0 THEN [m |-> m, params |-> <<>>, calls |-> calls, err |-> FALSE]
        ELSE LET ep == endpoints[i]
                 st == F[i - 1]
                 zoneID == TunnelFindZone(mapper, ep.DNSName)
                 updated == UpdateResult(st.m.heap, st.m.keys, st.m.data,
                                         EndpointRule(ep))
                 list == ListDNSRecordsWithAutoPagination(zoneID, 1, <<>>,
                                                          st.calls, failAt)
             IN IF st.err \/ ep.RecordType # "A" THEN st
                ELSE IF zoneID = "" THEN [st EXCEPT !.m = updated]
                ELSE IF list.err
                THEN [st EXCEPT !.m = updated, !.calls = list.calls, !.err = TRUE]
                ELSE [m |-> updated, calls |-> list.calls, err |-> FALSE,
                      params |-> Append(st.params,
                                        [ID |-> GetRecordID(list.records, ep.DNSName,
                                                            "CNAME"),
                                         Name |-> ep.DNSName, Type |-> "CNAME",
                                         Content |-> TunnelContent, ZoneID |-> zoneID])]
  IN F[Len(endpoints)]

\* the loop over changes.Delete
DeleteLoop(mapper, m, endpoints, calls, failAt) ==
  LET F[i \in 0..Len(endpoints)] ==
        IF i = 0 THEN [m |-> m, params |-> <<>>, calls |-> calls, err |-> FALSE]
        ELSE LET ep == endpoints[i]
                 st == F[i - 1]
                 zoneID == TunnelFindZone(mapper, ep.DNSName)
                 removed == RemoveResult(st.m.heap, st.m.keys, st.m.data,
                                         [Hostname |-> ep.DNSName, Service |-> ""])
                 list == ListDNSRecordsWithAutoPagination(zoneID, 1, <<>>,
                                                          st.calls, failAt)
             IN IF st.err \/ ep.RecordType # "A" THEN st
                ELSE IF zoneID = "" THEN [st EXCEPT !.m = removed]
                ELSE IF list.err
                THEN [st EXCEPT !.m = removed, !.calls = list.calls, !.err = TRUE]
                ELSE [m |-> removed, calls |-> list.calls, err |-> FALSE,
                      params |-> Append(st.params,
                                        [ZoneID |-> zoneID,
                                         recordID |-> GetRecordID(list.records,
                                                                  ep.DNSName, "CNAME")])]
  IN F[Len(endpoints)]

\* tunnelConfigParam.Config.Ingress: ingressConfigs.Get() with catchAll appended
AssembleIngress(m, catchAll) ==
  LET g == GetResult(m.heap, m.keys, m.data)
      a == AppendOne(g.heap, g.slice, catchAll, ZeroRule)
  IN SliceElems(a.heap, a.slice)

\* a loop that issues no further DNS call once one has failed
DNSLoop_StopOnFail(api, params, calls, failAt) ==
  LET F[i \in 0..Len(params)] ==
        IF i = 0 THEN calls
        ELSE IF ~F[i - 1][Len(F[i - 1])].ok THEN F[i - 1]
        ELSE Append(F[i - 1],
                    ApiCall(api, "", params[i].ZoneID, 0, params[i],
                            Len(F[i - 1]) + 1 # failAt))
  IN F[Len(params)]

\* a loop that issues one DNS call for every queued parameter and goes on
\* after a failure
DNSLoop(api, params, calls, failAt) ==
  LET F[i \in 0..Len(params)] ==
        IF i = 0 THEN calls
        ELSE Append(F[i - 1],
                    ApiCall(api, "", params[i].ZoneID, 0, params[i],
                            Len(F[i - 1]) + 1 # failAt))
  IN F[Len(params)]

\* what an ApplyChanges that did not get to assemble an ingress list returns
TunnelFailed(mapper, calls) ==
  [err |-> TRUE, calls |-> calls, mapper |-> mapper, assembled |-> FALSE,
   ingress |-> <<>>, fetched |-> <<>>, creates |-> <<>>, updates |-> <<>>,
   deletes |-> <<>>, pushed |-> FALSE]

\* the DNS calls issued before the push of the configuration
TunnelPush_PushLast(r, dryRun, failAt) ==
  IF dryRun THEN r
  ELSE LET c1 == DNSLoop("CreateDNSRecord", r.creates, r.calls, failAt)
           c2 == DNSLoop("UpdateDNSRecord", r.updates, c1, failAt)
           c3 == DNSLoop("DeleteDNSRecord", r.deletes, c2, failAt)
       IN IF Len(c3) + 1 = failAt
          THEN [r EXCEPT !.err = TRUE,
                         !.calls = Append(c3,
                                          ApiCall("UpdateTunnelConfiguration", "", "",
                                                  0, r.ingress, FALSE))]
          ELSE [r EXCEPT !.calls = Append(c3,
                                          ApiCall("UpdateTunnelConfiguration", "", "",
                                                  0, r.ingress, TRUE)),
                         !.pushed = TRUE]

\* the push and the DNS calls made in dry-run mode too
TunnelPush_NoDryRun(r, dryRun, failAt) ==
  IF Len(r.calls) + 1 = failAt
  THEN [r EXCEPT !.err = TRUE,
                 !.calls = Append(r.calls,
                                  ApiCall("UpdateTunnelConfiguration", "", "", 0,
                                          r.ingress, FALSE))]
  ELSE LET c0 == Append(r.calls,
                        ApiCall("UpdateTunnelConfiguration", "", "", 0,
                                r.ingress, TRUE))
           c1 == DNSLoop("CreateDNSRecord", r.creates, c0, failAt)
           c2 == DNSLoop("UpdateDNSRecord", r.updates, c1, failAt)
           c3 == DNSLoop("DeleteDNSRecord", r.deletes, c2, failAt)
       IN [r EXCEPT !.calls = c3, !.pushed = TRUE]

\* the DNS deletes issued before the DNS creates
TunnelPush_DeletesFirst(r, dryRun, failAt) ==
  IF dryRun THEN r
  ELSE IF Len(r.calls) + 1 = failAt
  THEN [r EXCEPT !.err = TRUE,
                 !.calls = Append(r.calls,
                                  ApiCall("UpdateTunnelConfiguration", "", "", 0,
                                          r.ingress, FALSE))]
  ELSE LET c0 == Append(r.calls,
                        ApiCall("UpdateTunnelConfiguration", "", "", 0,
                                r.ingress, TRUE))
           c1 == DNSLoop("DeleteDNSRecord", r.deletes, c0, failAt)
           c2 == DNSLoop("UpdateDNSRecord", r.updates, c1, failAt)
           c3 == DNSLoop("CreateDNSRecord", r.creates, c2, failAt)
       IN [r EXCEPT !.calls = c3, !.pushed = TRUE]

\* CloudFlareTunnelProvider.ApplyChanges from the tunnelConfigParam on: the
\* push of the configuration and the three loops of DNS calls
TunnelPush(r, dryRun, failAt) ==
  IF dryRun THEN r
  ELSE IF Len(r.calls) + 1 = failAt
  THEN [r EXCEPT !.err = TRUE,
                 !.calls = Append(r.calls,
                                  ApiCall("UpdateTunnelConfiguration", "", "", 0,
                                          r.ingress, FALSE))]
  ELSE LET c0 == Append(r.calls,
                        ApiCall("UpdateTunnelConfiguration", "", "", 0,
                                r.ingress, TRUE))
           c1 == DNSLoop("CreateDNSRecord", r.creates, c0, failAt)
           c2 == DNSLoop("UpdateDNSRecord", r.updates, c1, failAt)
           c3 == DNSLoop("DeleteDNSRecord", r.deletes, c2, failAt)
       IN [r EXCEPT !.calls = c3, !.pushed = TRUE]

\* CloudFlareTunnelProvider.ApplyChanges
TunnelApplyResult(p, v, ch, failAt) ==
  LET zm == UpdateZoneIdMapper(p, <<>>, failAt) IN
  IF zm.err THEN TunnelFailed(zm.mapper, zm.calls)
  ELSE IF Len(zm.calls) + 1 = failAt
  THEN TunnelFailed(zm.mapper,
                    Append(zm.calls,
                           ApiCall("GetTunnelConfiguration", "", "", 0, <<>>, FALSE)))
  ELSE LET c0 == Append(zm.calls,
                        ApiCall("GetTunnelConfiguration", "", "", 0, <<>>, TRUE))
           old == LoadIngress(v.Ingress)
           cr == CreateLoop(zm.mapper, old.m, ch.Create)
           up == UpdateLoop(zm.mapper, cr.m, ch.UpdateNew, c0, failAt)
           de == DeleteLoop(zm.mapper, up.m, ch.Delete, up.calls, failAt)
       IN IF up.err THEN TunnelFailed(zm.mapper, up.calls)
          ELSE IF de.err THEN TunnelFailed(zm.mapper, de.calls)
          ELSE TunnelPush([err |-> FALSE, calls |-> de.calls, mapper |-> zm.mapper,
                           assembled |-> TRUE,
                           ingress |-> AssembleIngress(de.m, old.catchAll),
                           fetched |-> v.Ingress, creates |-> cr.params,
                           updates |-> up.params, deletes |-> de.params,
                           pushed |-> FALSE],
                          p.DryRun, failAt)

\* the last call of the Cloudflare provider, none yet
NoTunnelCall ==
  [op |-> "New", err |-> FALSE, isNil |-> FALSE, calls |-> <<>>,
   endpoints |-> <<>>, assembled |-> FALSE, ingress |-> <<>>, fetched |-> <<>>,
   creates |-> <<>>, updates |-> <<>>, deletes |-> <<>>, pushed |-> FALSE,
   mapper |-> <<>>, records |-> <<>>]

\* the Cloudflare provider is between two calls
TunnelIdle == cfcall.op = "New"

\* a call of p.Records(ctx); the API call numbered failAt fails (0: none does)
TunnelRecords(failAt) ==
  LET r == TunnelRecordsResult(cf, failAt) IN
  /\ TunnelIdle
  /\ Injected(r, failAt)
  /\ cfcall' = [NoTunnelCall EXCEPT !.op = "Records", !.err = r.err,
                                    !.isNil = r.isNil, !.calls = r.calls,
                                    !.endpoints = r.endpoints,
                                    !.fetched = cf.Ingress,
                                    !.mapper = tunnel.zoneNameIDMapper]
  /\ UNCHANGED <<tunnel, cf, changes>>
  /\ UNCHANGED <<cfg, vendor, zoneCache, now, ocall>>
  /\ UNCHANGED omvars

\* a call of p.ApplyChanges(ctx, changes); a pushed ingress list is the
\* tunnel's configuration from then on
TunnelApplyChanges(failAt) ==
  LET r == TunnelApplyResult(tunnel, cf, changes, failAt) IN
  /\ TunnelIdle
  /\ Injected(r, failAt)
  /\ tunnel' = [tunnel EXCEPT !.zoneNameIDMapper = r.mapper]
  /\ cf' = IF r.pushed THEN [cf EXCEPT !.Ingress = r.ingress] ELSE cf
  /\ cfcall' = r @@ [op |-> "ApplyChanges", isNil |-> r.err, endpoints |-> <<>>,
                     records |-> <<>>]
  /\ UNCHANGED changes
  /\ UNCHANGED <<cfg, vendor, zoneCache, now, ocall>>
  /\ UNCHANGED omvars

\* a call of p.listDNSRecordsWithAutoPagination(ctx, zoneID); the API call
\* numbered failAt fails (0: none does)
TunnelList(zoneID, failAt) ==
  LET r == ListDNSRecordsWithAutoPagination(zoneID, 1, <<>>, <<>>, failAt) IN
  /\ TunnelIdle
  /\ Injected(r, failAt)
  /\ cfcall' = [NoTunnelCall EXCEPT !.op = "List", !.err = r.err,
                                    !.isNil = r.err, !.calls = r.calls,
                                    !.records = r.records,
                                    !.mapper = tunnel.zoneNameIDMapper]
  /\ UNCHANGED <<tunnel, cf, changes>>
  /\ UNCHANGED <<cfg, vendor, zoneCache, now, ocall>>
  /\ UNCHANGED omvars

\* the call returns to its caller
TunnelReturn ==
  /\ ~TunnelIdle
  /\ cfcall' = NoTunnelCall
  /\ UNCHANGED <<tunnel, cf, changes>>
  /\ UNCHANGED <<cfg, vendor, zoneCache, now, ocall>>
  /\ UNCHANGED omvars

----------------------------------------------------------------------------
(***************************************************************************)
(* Specifications                                                          *)
(***************************************************************************)

\* NewOCIProvider(cfg, domainFilter, zoneIDFilter, zoneScope, dryRun)
NewOCIProvider(scope, domainFilter, zoneIDFilter, duration, dryRun) ==
  /\ cfg = [zoneScope |-> scope, domainFilter |-> domainFilter,
            zoneIDFilter |-> zoneIDFilter, dryRun |-> dryRun,
            ZoneCacheDuration |-> duration]
  /\ zoneCache = NewZoneCache(duration)
  /\ now = 0
  /\ ocall = NoCall

\* NewCloudFlareTunnelProvider(client, domainFilter, zoneIDFilter, dryRun,
\* dnsRecordsPerPage): DNSRecordsPerPage is left at its zero value
NewCloudFlareTunnelProvider(domainFilter, zoneIDFilter, dryRun) ==
  /\ tunnel = [DryRun |-> dryRun, domainFilter |-> domainFilter,
               zoneIDFilter |-> zoneIDFilter, DNSRecordsPerPage |-> 0,
               zoneNameIDMapper |-> <<>>]
  /\ cfcall = NoTunnelCall

\* no Cloudflare provider in play
TunnelOff ==
  /\ NewCloudFlareTunnelProvider({}, <<>>, FALSE)
  /\ cf = [Ingress |-> <<>>, Records |-> TunnelRecordSets]

\* no OCI provider in play
OCIOff ==
  /\ NewOCIProvider("", {}, {}, 0, FALSE)
  /\ vendor = [s \in {"GLOBAL", "PRIVATE"} |-> 1]

\* no provider in play
OCIIdle ==
  /\ OCIOff
  /\ changes = NoChanges
  /\ TunnelOff

\* the state after NewOrderedMap(c)
InitMap ==
  /\ \E c \in 0..MaxCap : NewOrderedMap(c)
  /\ results = NilSlice
  /\ last = [op |-> "New", arg |-> ZeroRule, ok |-> FALSE,
             pre |-> [keys |-> <<>>, data |-> <<>>, get |-> <<>>]]
  /\ adds = <<>>

\* no OrderedMap in play
OMIdle ==
  /\ NewOrderedMap(0)
  /\ results = NilSlice
  /\ last = [op |-> "New", arg |-> ZeroRule, ok |-> FALSE,
             pre |-> [keys |-> <<>>, data |-> <<>>, get |-> <<>>]]
  /\ adds = <<>>
  /\ traced = FALSE

\* the map under Add, Update and Remove, the Add-only histories traced
InitOM == InitMap /\ traced = TRUE /\ OCIIdle

NextOM ==
  \/ \E s \in Rules : Add(s)
  \/ \E s \in Rules : Update(s)
  \/ \E s \in Rules : Remove(s)

SpecOM == InitOM /\ [][NextOM]_vars

\* the map and a caller of Get() that writes to the slice it got
InitGet == InitMap /\ traced = FALSE /\ OCIIdle

NextGet ==
  \/ \E s \in Rules : Add(s)
  \/ \E s \in Rules : Update(s)
  \/ \E s \in Rules : Remove(s)
  \/ Get
  \/ \E i \in 1..(Cardinality(Hostnames) + MaxAppends) : ResultSet(i, CatchAllRule)
  \/ ResultAppend(CatchAllRule)

SpecGet == InitGet /\ [][NextGet]_vars

\* an OCI provider of any configuration listing zones and reading records
\* against a vendor that pages its zone listings in any way
InitZones ==
  /\ \E scope \in {"", "GLOBAL", "PRIVATE"},
        df \in {{}, {FooCom}, {XOtherOrg}},
        idf \in {{}, {"ocid.z1"}},
        d \in 0..MaxDuration :
       NewOCIProvider(scope, df, idf, d, FALSE)
  /\ vendor \in [{"GLOBAL", "PRIVATE"} -> 1..MaxPages]
  /\ changes = NoChanges
  /\ OMIdle
  /\ TunnelOff

NextZones ==
  \/ Tick
  \/ Return
  \/ \E f \in 0..MaxFailAt : Zones(f)
  \/ \E f \in 0..MaxFailAt : Records(f)

SpecZones == InitZones /\ [][NextZones]_vars

\* an OCI provider applying one set of changes, again and again
InitApply ==
  /\ \E df \in {{}, {FooCom}}, dry \in BOOLEAN :
       NewOCIProvider("", df, {}, 1, dry)
  /\ vendor = [s \in {"GLOBAL", "PRIVATE"} |-> IF s = "GLOBAL" THEN 2 ELSE 1]
  /\ changes \in ChangeSets
  /\ OMIdle
  /\ TunnelOff

NextApply ==
  \/ Tick
  \/ Return
  \/ \E f \in 0..MaxFailAt : ApplyChanges(f)

SpecApply == InitApply /\ [][NextApply]_vars

\* a Cloudflare Tunnel provider reading the tunnel's rules and applying one
\* set of changes, again and again
InitTunnel ==
  /\ \E idf \in {<<>>, <<"cf.z2">>}, dry \in BOOLEAN :
       NewCloudFlareTunnelProvider({}, idf, dry)
  /\ cf \in [Ingress : TunnelConfigs, Records : {TunnelRecordSets}]
  /\ changes \in TunnelChangeSets
  /\ OCIOff
  /\ OMIdle

NextTunnel ==
  \/ \E f \in 0..MaxFailAt : TunnelRecords(f)
  \/ \E f \in 0..MaxFailAt : TunnelApplyChanges(f)
  \/ TunnelReturn

SpecTunnel == InitTunnel /\ [][NextTunnel]_vars

\* a Cloudflare Tunnel provider listing the records of one zone, which the
\* vendor returns in one to MaxPages pages of up to MaxPageLen records
InitList ==
  /\ NewCloudFlareTunnelProvider({}, <<>>, FALSE)
  /\ cf \in [Ingress : {<<>>}, Records : [{"cf.z1"} -> PageLayouts]]
  /\ changes = NoChanges
  /\ OCIOff
  /\ OMIdle

NextList ==
  \/ \E f \in 0..MaxFailAt : TunnelList("cf.z1", f)
  \/ TunnelReturn

SpecList == InitList /\ [][NextList]_vars

----------------------------------------------------------------------------
(***************************************************************************)
(* Properties of util.OrderedMap                                           *)
(***************************************************************************)

\* the rules of a whose hostname does not occur again later in a, in order
LastAdds(a) ==
  LET keep == {i \in 1..Len(a) :
                 \A j \in (i + 1)..Len(a) : a[j].Hostname # a[i].Hostname}
      G[i \in 0..Len(a)] ==
        IF i = 0 THEN <<>>
        ELSE IF i \in keep THEN Append(G[i - 1], a[i]) ELSE G[i - 1]
  IN G[Len(a)]

\* s without the elements equal to x
Without(s, x) ==
  LET G[i \in 0..Len(s)] ==
        IF i = 0 THEN <<>>
        ELSE IF s[i] = x THEN G[i - 1] ELSE Append(G[i - 1], s[i])
  IN G[Len(s)]

\* C1: after a sequence of Add calls on a new map, Get() returns one value per
\* distinct hostname, ordered by the position of the hostname's most recent
\* Add, each value being the one passed to that Add.
C1_AddOrder == traced => GetSeq = LastAdds(adds)

\* Add(test1), Add(test2), Add(test3), Add(test1) was called and Get() is
\* [test2, test3, test1]
C1_Witness ==
  /\ traced
  /\ [i \in 1..Len(adds) |-> adds[i].Hostname] = <<"test1", "test2", "test3", "test1">>
  /\ adds[1].Service # adds[4].Service
  /\ [i \in 1..Len(GetSeq) |-> GetSeq[i].Hostname] = <<"test2", "test3", "test1">>

\* C2: Update(v) of a present hostname changes only the value stored for it
\* (order of Get() and all other values unchanged); Update(v) of an absent
\* hostname leaves the state Add(v) leaves, v appended at the end.
C2_Update ==
  last.op = "Update" =>
    LET s == last.arg
        pre == last.pre
    IN IF s.Hostname \in DOMAIN pre.data
       THEN /\ last.ok
            /\ KeySeq = pre.keys
            /\ data = Put(pre.data, s.Hostname, s)
            /\ Len(GetSeq) = Len(pre.get)
            /\ \A i \in 1..Len(GetSeq) :
                 GetSeq[i] = IF pre.get[i].Hostname = s.Hostname THEN s ELSE pre.get[i]
       ELSE /\ ~last.ok
            /\ KeySeq = Append(pre.keys, s.Hostname)
            /\ data = Put(pre.data, s.Hostname, s)
            /\ GetSeq = Append(pre.get, s)

\* Update(test1, v2) was called on a map holding [test1:v1, test2:v1]
C2_Witness ==
  /\ last.op = "Update" /\ last.ok
  /\ last.arg = [Hostname |-> "test1", Service |-> "v2"]
  /\ last.pre.get = <<[Hostname |-> "test1", Service |-> "v1"],
                      [Hostname |-> "test2", Service |-> "v1"]>>
  /\ GetSeq = <<[Hostname |-> "test1", Service |-> "v2"],
                [Hostname |-> "test2", Service |-> "v1"]>>

\* C3: Remove(v) of an absent hostname leaves the map unchanged; Remove(v) of
\* a present hostname takes it out of the lookup and of the order and keeps
\* the relative order and the values of all other hostnames.
C3_Remove ==
  last.op = "Remove" =>
    LET s == last.arg
        pre == last.pre
    IN IF s.Hostname \in DOMAIN pre.data
       THEN /\ last.ok
            /\ s.Hostname \notin DOMAIN data
            /\ \A i \in 1..Len(KeySeq) : KeySeq[i] # s.Hostname
            /\ KeySeq = Without(pre.keys, s.Hostname)
            /\ data = Delete(pre.data, s.Hostname)
            /\ GetSeq = Without(pre.get, pre.data[s.Hostname])
       ELSE /\ ~last.ok
            /\ KeySeq = pre.keys
            /\ data = pre.data
            /\ GetSeq = pre.get

\* Remove(test2) was called on a map that held test2 between test1 and test3
C3_Witness ==
  /\ last.op = "Remove" /\ last.ok
  /\ last.arg.Hostname = "test2"
  /\ last.pre.keys = <<"test1", "test2", "test3">>
  /\ KeySeq = <<"test1", "test3">>

\* C4: after any interleaving of Add, Update and Remove the order list holds
\* no hostname twice, its hostnames are the keys of the lookup table, and
\* Len() is the number of hostnames held and the length of Get().
C4_MapInvariant ==
  /\ \A i, j \in 1..Len(KeySeq) : KeySeq[i] = KeySeq[j] => i = j
  /\ {KeySeq[i] : i \in 1..Len(KeySeq)} = DOMAIN data
  /\ OMLen = Cardinality(DOMAIN data)
  /\ OMLen = Len(GetSeq)

\* a present hostname was added again after an Update or a Remove, three held
C4_Witness ==
  /\ ~traced
  /\ last.op = "Add" /\ last.ok
  /\ OMLen = 3

\* C5: Get() changes nothing in the map and returns a slice on an array of
\* its own; writing to or appending to the returned slice changes neither a
\* later Get() nor Len().
C5_GetNoAlias ==
  last.op \in {"Get", "ResultSet", "ResultAppend"} =>
    /\ results.arr # keys.arr
    /\ KeySeq = last.pre.keys
    /\ data = last.pre.data
    /\ GetSeq = last.pre.get
    /\ OMLen = Len(last.pre.keys)
    /\ last.op = "Get" => SliceElems(heap, results) = last.pre.get

\* the caller has overwritten an element of the slice it got and appended the
\* catch-all rule to it
C5_Witness ==
  /\ last.op = "ResultAppend"
  /\ OMLen = 2
  /\ results.len = 3
  /\ \E i \in 1..2 : heap[results.arr][i] = CatchAllRule /\ GetSeq[i] # CatchAllRule
  /\ heap[results.arr][3] = CatchAllRule

----------------------------------------------------------------------------
(***************************************************************************)
(* Properties of the OCI provider                                          *)
(***************************************************************************)

\* the vendor's zones of the listed scopes that pass both filters, by id
FilteredZones ==
  LET scopes == IF cfg.zoneScope = "" THEN {"GLOBAL", "PRIVATE"} ELSE {cfg.zoneScope}
      zs == {z \in VendorZones :
               /\ z.Scope \in scopes
               /\ DomainMatch(cfg.domainFilter, z.Name)
               /\ ZoneIDMatch(cfg.zoneIDFilter, z.Id)}
  IN [id \in {z.Id : z \in zs} |->
        LET z == CHOOSE z \in zs : z.Id = id IN [Id |-> z.Id, Name |-> z.Name]]

\* the ListZones calls of the last provider call, in order
ListCalls == SelectSeq(ocall.calls, LAMBDA c : c.api = "ListZones")

\* a ListZones call of the last provider call failed
ListFailed == \E i \in 1..Len(ocall.calls) :
                ocall.calls[i].api = "ListZones" /\ ~ocall.calls[i].ok

\* the last provider call ran p.zones(ctx)
RanZones == ocall.op \in {"zones", "Records", "ApplyChanges"} /\ ocall.listed

\* C6: the zone cache is expired before the first Reset, is not expired at
\* the time of a Reset whatever mapping it stores, and after a Reset is
\* expired exactly when more than the configured duration has passed since.
C6_CacheExpiry ==
  /\ ocall.resetAt = -1 => Expired(zoneCache, now)
  /\ ocall.resetAt >= 0 =>
       (Expired(zoneCache, now) <=> now - ocall.resetAt > cfg.ZoneCacheDuration)

\* the cache has just been reset with an empty mapping and is not expired
C6_Witness ==
  /\ ocall.resetAt = now
  /\ now > 0
  /\ zoneCache.zones = <<>>
  /\ ~Expired(zoneCache, now)

\* C7: a successful listing resets the cache with the full filtered result,
\* empty or not; a zones() call on a fresh cache returns the cached mapping
\* and issues no ListZones call; ListZones calls are only issued by a zones()
\* call that found the cache expired.
C7_ZonesCache ==
  /\ zoneCache.populated => zoneCache.zones = FilteredZones
  /\ (RanZones /\ ocall.expired /\ ~ListFailed) =>
       /\ zoneCache.populated
       /\ zoneCache.age = ocall.resetAt
       /\ ocall.zones = FilteredZones
  /\ (RanZones /\ ~ocall.expired) =>
       /\ Len(ListCalls) = 0
       /\ ocall.zones = ocall.pre.zones
       /\ ocall.zones = FilteredZones
       /\ zoneCache = ocall.pre
  /\ Len(ListCalls) > 0 => RanZones /\ ocall.expired

\* zones() was called on a fresh cache holding two zones and issued no call
C7_Witness ==
  /\ ocall.op = "zones"
  /\ ~ocall.expired
  /\ ocall.calls = <<>>
  /\ ~ocall.err
  /\ Cardinality(DOMAIN ocall.zones) = 2
  /\ now > ocall.resetAt

\* every scope the provider lists is returned by the vendor in two pages
TwoPageListing ==
  \A i \in 1..Len(ListedScopes(cfg)) : vendor[ListedScopes(cfg)[i]] = 2

\* Records listed the zones afresh against a vendor answering in two pages
RecordsListedTwoPages ==
  /\ ocall.op = "Records"
  /\ ocall.expired
  /\ ~ListFailed
  /\ TwoPageListing

\* C8 as stated: when the zone listing comes in two pages, Records issues
\* exactly two ListZones calls, the second carrying the token the first
\* returned, and uses the filter-matching zones of both pages.
C8_TwoCalls ==
  RecordsListedTwoPages =>
    /\ Len(ListCalls) = 2
    /\ ListCalls[1].page = 0
    /\ ListCalls[2].page = ListZones(vendor, ListCalls[1].scope, 0).OpcNextPage
    /\ ocall.zones = FilteredZones

\* C8, amended: Records issues exactly two ListZones calls for each scope it
\* lists (one scope when a zone scope is configured, every scope value when
\* none is), the second carrying the token the first returned, and uses the
\* filter-matching zones of all the pages.
C8_TwoCallsPerScope ==
  RecordsListedTwoPages =>
    LET scopes == ListedScopes(cfg) IN
    /\ Len(ListCalls) = 2 * Len(scopes)
    /\ \A i \in 1..Len(scopes) :
         /\ ListCalls[2 * i - 1].scope = scopes[i]
         /\ ListCalls[2 * i - 1].page = 0
         /\ ListCalls[2 * i].scope = scopes[i]
         /\ ListCalls[2 * i].page # 0
         /\ ListCalls[2 * i].page = ListZones(vendor, scopes[i], 0).OpcNextPage
    /\ ocall.zones = FilteredZones

\* Records listed the GLOBAL scope in two calls and used the zones of both pages
C8_Witness ==
  /\ RecordsListedTwoPages
  /\ cfg.zoneScope = "GLOBAL"
  /\ Len(ListCalls) = 2
  /\ DOMAIN ocall.zones = {"ocid.z1", "ocid.z2"}
  /\ ~ocall.err

\* C9: when a ListZones page fetch fails, zones() returns an error and no
\* mapping, the failed call is the last call issued (no further page, no
\* retry), and the zone cache is as it was before the call.
C9_ListFailure ==
  (RanZones /\ ListFailed) =>
    /\ ocall.err
    /\ ocall.isNil
    /\ ocall.zones = <<>>
    /\ ~ocall.calls[Len(ocall.calls)].ok
    /\ \A i \in 1..(Len(ocall.calls) - 1) : ocall.calls[i].ok
    /\ zoneCache = ocall.pre
    /\ ocall.resetAt = IF ocall.pre.populated THEN ocall.pre.age ELSE -1

\* zones() failed on the page of the second scope, the cache populated before
C9_Witness ==
  /\ ocall.op = "zones"
  /\ ocall.err
  /\ Len(ocall.calls) >= 2
  /\ ocall.calls[Len(ocall.calls)].scope = "PRIVATE"
  /\ ocall.pre.populated
  /\ zoneCache = ocall.pre

\* the endpoints of the changes
ChangeEndpoints ==
  {changes.Create[i] : i \in 1..Len(changes.Create)}
    \cup {changes.UpdateNew[i] : i \in 1..Len(changes.UpdateNew)}
    \cup {changes.UpdateOld[i] : i \in 1..Len(changes.UpdateOld)}
    \cup {changes.Delete[i] : i \in 1..Len(changes.Delete)}

\* the domain filter excludes every endpoint of the changes
AllExcluded == \A e \in ChangeEndpoints : ~DomainMatch(cfg.domainFilter, e.DNSName)

\* no endpoint of the changes has a supported record type
NoneSupported == \A e \in ChangeEndpoints : ~SupportedRecordType(e.RecordType)

\* ApplyChanges returned nil, called nothing and left the cache alone
AppliedNothing ==
  /\ ~ocall.err
  /\ ocall.calls = <<>>
  /\ ~ocall.listed
  /\ zoneCache = ocall.pre

\* C10 as stated: when no endpoint's record type is supported or the domain
\* filter excludes every endpoint, ApplyChanges returns nil without calling
\* ListZones or PatchZoneRecords and without changing the zone cache.
C10_ZeroOps ==
  (ocall.op = "ApplyChanges" /\ (NoneSupported \/ AllExcluded)) => AppliedNothing

\* C10, amended: when the domain filter excludes every endpoint of the
\* changes, ApplyChanges returns nil without calling ListZones or
\* PatchZoneRecords and without changing the zone cache.
C10_ZeroOpsFiltered ==
  (ocall.op = "ApplyChanges" /\ AllExcluded) => AppliedNothing

\* ApplyChanges was called on an expired cache with two endpoints that the
\* domain filter excludes, and called nothing
C10_Witness ==
  /\ ocall.op = "ApplyChanges"
  /\ Cardinality(ChangeEndpoints) = 2
  /\ cfg.domainFilter # {}
  /\ AllExcluded
  /\ ocall.expired
  /\ AppliedNothing

\* the PatchZoneRecords calls of the last provider call, in order
PatchCalls == SelectSeq(ocall.calls, LAMBDA c : c.api = "PatchZoneRecords")

\* a PatchZoneRecords call of the last provider call failed
PatchFailed == \E i \in 1..Len(PatchCalls) : ~PatchCalls[i].ok

\* how many elements of the sequence s equal x
CountIn(s, x) == Cardinality({i \in 1..Len(s) : s[i] = x})

\* the operation of type opType is that of the endpoint e
OpOf(o, e, opType) ==
  o.Domain = e.DNSName /\ o.Rtype = e.RecordType /\ o.Operation = opType

\* the domain filter lets the endpoint e through
Passes(e) == DomainMatch(cfg.domainFilter, e.DNSName)

\* C11: the operation list holds one ADD operation for each endpoint of
\* Create and of UpdateNew that passes the domain filter, one REMOVE operation
\* for each endpoint of UpdateOld and of Delete that passes it, and no
\* operation for an endpoint the domain filter rejects.
C11_OperationList ==
  ocall.op = "ApplyChanges" =>
    /\ \A e \in Endpoints :
         /\ Cardinality({i \in 1..Len(ocall.ops) : OpOf(ocall.ops[i], e, "ADD")}) =
              IF Passes(e)
              THEN CountIn(changes.Create, e)
                     + CountIn(changes.UpdateNew, e)
              ELSE 0
         /\ Cardinality({i \in 1..Len(ocall.ops) : OpOf(ocall.ops[i], e, "REMOVE")}) =
              IF Passes(e)
              THEN CountIn(changes.UpdateOld, e)
                     + CountIn(changes.Delete, e)
              ELSE 0
    /\ \A i \in 1..Len(ocall.ops) :
         \E e \in Endpoints : OpOf(ocall.ops[i], e, ocall.ops[i].Operation)

\* ApplyChanges built a REMOVE operation for the old endpoint of an update
\* and none for the new one, which the domain filter rejects
C11_Witness ==
  /\ ocall.op = "ApplyChanges"
  /\ Len(changes.UpdateOld) = 1 /\ Passes(changes.UpdateOld[1])
  /\ Len(changes.UpdateNew) = 1 /\ ~Passes(changes.UpdateNew[1])
  /\ Len(ocall.ops) = 1
  /\ ocall.ops[1].Operation = "REMOVE"

\* the zone that owns the operation o among the zones the call used
ZoneOf(o) == FindZone(ocall.zones, o.Domain)

\* ApplyChanges got its zones and built the batches
Partitioned == ocall.op = "ApplyChanges" /\ ocall.listed /\ ~ListFailed

\* C12: an operation whose domain matches no known zone is in no batch and in
\* no PatchZoneRecords call, and dropping it is no error: the call returns nil
\* unless a patch fails; every other operation is in the batch of exactly one
\* zone, as often as it is in the operation list.
C12_ZonePartition ==
  Partitioned =>
    /\ \A i \in 1..Len(ocall.ops) :
         LET o == ocall.ops[i] IN
         IF ZoneOf(o) = ""
         THEN /\ \A z \in DOMAIN ocall.byZone :
                   CountIn(ocall.byZone[z], o) = 0
              /\ \A k \in 1..Len(PatchCalls) :
                   CountIn(PatchCalls[k].items, o) = 0
         ELSE /\ Cardinality({z \in DOMAIN ocall.byZone :
                                CountIn(ocall.byZone[z], o) > 0}) = 1
              /\ CountIn(ocall.byZone[ZoneOf(o)], o) =
                   CountIn(ocall.ops, o)
    /\ \A k \in 1..Len(PatchCalls) :
         /\ PatchCalls[k].zone \in DOMAIN ocall.byZone
         /\ PatchCalls[k].items = ocall.byZone[PatchCalls[k].zone]
    /\ ~PatchFailed => ~ocall.err

\* ApplyChanges dropped an operation without a zone, patched a zone with
\* another operation and returned nil
C12_Witness ==
  /\ Partitioned
  /\ \E i \in 1..Len(ocall.ops) : ZoneOf(ocall.ops[i]) = ""
  /\ \E i \in 1..Len(ocall.ops) : ZoneOf(ocall.ops[i]) # ""
  /\ Len(PatchCalls) = 1
  /\ ~ocall.err

\* the operations of the list that the zone z owns, in the order of the list
OpsOfZone(z) == SelectSeq(ocall.ops, LAMBDA o : ZoneOf(o) = z)

\* C13: not in dry-run mode and with every patch succeeding, PatchZoneRecords
\* is called once for each zone that owns an operation, with all the
\* operations of that zone, and is not called for a zone that owns none.
C13_OnePatchPerZone ==
  (Partitioned /\ ~cfg.dryRun /\ ~PatchFailed) =>
    /\ \A i, j \in 1..Len(PatchCalls) :
         PatchCalls[i].zone = PatchCalls[j].zone => i = j
    /\ {PatchCalls[i].zone : i \in 1..Len(PatchCalls)} =
         {z \in DOMAIN ocall.zones : Len(OpsOfZone(z)) > 0}
    /\ \A i \in 1..Len(PatchCalls) :
         PatchCalls[i].items = OpsOfZone(PatchCalls[i].zone)

\* ApplyChanges patched two zones, one call each, a third zone owning nothing
C13_Witness ==
  /\ Partitioned
  /\ ~cfg.dryRun
  /\ ~PatchFailed
  /\ Len(PatchCalls) = 2
  /\ Cardinality(DOMAIN ocall.zones) = 3

\* C14: in dry-run mode ApplyChanges never calls PatchZoneRecords and
\* returns nil whenever the zone listing succeeds.
C14_DryRun ==
  (ocall.op = "ApplyChanges" /\ cfg.dryRun) =>
    /\ Len(PatchCalls) = 0
    /\ ~ListFailed => ~ocall.err

\* a dry run of ApplyChanges with operations for two zones called no patch
C14_Witness ==
  /\ Partitioned
  /\ cfg.dryRun
  /\ Cardinality(DOMAIN ocall.byZone) = 2
  /\ Len(PatchCalls) = 0
  /\ ~ocall.err

\* C15: a failed PatchZoneRecords call is the last call of its ApplyChanges,
\* which returns the error; the patches issued before it all succeeded and
\* nothing is called to undo them.
C15_PatchFailure ==
  (ocall.op = "ApplyChanges" /\ PatchFailed) =>
    /\ ocall.err
    /\ ~ocall.calls[Len(ocall.calls)].ok
    /\ \A i \in 1..(Len(ocall.calls) - 1) : ocall.calls[i].ok
    /\ \A i \in 1..Len(ocall.calls) :
         ocall.calls[i].api \in {"ListZones", "PatchZoneRecords"}

\* one zone is patched and the patch of the next has failed
C15_Witness ==
  /\ ocall.op = "ApplyChanges"
  /\ Len(PatchCalls) = 2
  /\ PatchCalls[1].ok
  /\ ~PatchCalls[2].ok
  /\ ocall.err

\* domain, record type and operation of the operations of a list, in order
OpKeys(ops) ==
  [i \in 1..Len(ops) |-> <<ops[i].Domain, ops[i].Rtype, ops[i].Operation>>]

\* the same for the operations of the endpoints of one set of the changes
\* that pass the domain filter, in the order of the endpoints
SetKeys(endpoints, opType) ==
  LET in == SelectSeq(endpoints, Passes) IN
  [i \in 1..Len(in) |-> <<in[i].DNSName, in[i].RecordType, opType>>]

\* C27: the operation list holds the ADD operations of Create, then those of
\* UpdateNew, then the REMOVE operations of UpdateOld, then those of Delete,
\* each set in the order of its endpoints; the batch of a zone holds the
\* operations of the zone in the order of the operation list, and so does
\* its PatchZoneRecords call.
C27_OperationOrder ==
  ocall.op = "ApplyChanges" =>
    /\ OpKeys(ocall.ops) =
         SetKeys(changes.Create, "ADD") \o SetKeys(changes.UpdateNew, "ADD")
           \o SetKeys(changes.UpdateOld, "REMOVE")
           \o SetKeys(changes.Delete, "REMOVE")
    /\ Partitioned =>
         /\ \A z \in DOMAIN ocall.byZone : ocall.byZone[z] = OpsOfZone(z)
         /\ \A k \in 1..Len(PatchCalls) :
              PatchCalls[k].items = OpsOfZone(PatchCalls[k].zone)

\* a Delete and a Create endpoint of one zone: the zone is patched with the
\* ADD operation before the REMOVE operation
C27_Witness ==
  /\ ocall.op = "ApplyChanges"
  /\ Len(changes.Create) = 1
  /\ Len(changes.Delete) = 1
  /\ Len(PatchCalls) = 1
  /\ Len(PatchCalls[1].items) = 2
  /\ PatchCalls[1].items[1].Operation = "ADD"
  /\ PatchCalls[1].items[2].Operation = "REMOVE"

----------------------------------------------------------------------------
(***************************************************************************)
(* Properties of the Cloudflare Tunnel provider                            *)
(***************************************************************************)

\* the API calls that change something at the vendor
MutatingApis ==
  {"UpdateTunnelConfiguration", "CreateDNSRecord", "UpdateDNSRecord",
   "DeleteDNSRecord"}

\* the mutating calls of the last call of the provider, in order
MutatingCalls == SelectSeq(cfcall.calls, LAMBDA c : c.api \in MutatingApis)

\* every read call of the last call of the provider succeeded
ReadsOk == \A i \in 1..Len(cfcall.calls) :
             cfcall.calls[i].api \notin MutatingApis => cfcall.calls[i].ok

\* the rules of the fetched configuration that have a hostname, in order
NamedRules == SelectSeq(cfcall.fetched, LAMBDA r : r.Hostname # "")

\* C16 as stated: Records returns one A endpoint (hostname, service) for
\* every ingress rule of the fetched configuration that has a hostname, in
\* ingress order, and no endpoint for the catch-all rule.
C16_Records ==
  (cfcall.op = "Records" /\ ~cfcall.err) =>
    cfcall.endpoints =
      [i \in 1..Len(NamedRules) |->
         [DNSName |-> NamedRules[i].Hostname, RecordType |-> "A",
          Targets |-> <<NamedRules[i].Service>>]]

\* ApplyChanges assembled an ingress list
Assembled == cfcall.op = "ApplyChanges" /\ cfcall.assembled

\* C17 as stated: the last rule of every assembled ingress list is a rule of
\* the fetched configuration that has no hostname, and no rule before it is
\* without a hostname.
C17_CatchAllLast ==
  Assembled =>
    LET n == Len(cfcall.ingress) IN
    /\ n >= 1
    /\ cfcall.ingress[n].Hostname = ""
    /\ \E i \in 1..Len(cfcall.fetched) : cfcall.fetched[i] = cfcall.ingress[n]
    /\ \A i \in 1..(n - 1) : cfcall.ingress[i].Hostname # ""

\* the hostnames that a Delete endpoint of type A names
DeletedNames ==
  {changes.Delete[i].DNSName :
     i \in {j \in 1..Len(changes.Delete) : changes.Delete[j].RecordType = "A"}}

\* C18 as stated: every rule of the fetched configuration that has a
\* hostname which no Delete endpoint of type A names is in the assembled
\* ingress list, wherever the catch-all rule sits in the fetched list.
C18_RulesPreserved ==
  Assembled =>
    \A i \in 1..Len(NamedRules) :
      NamedRules[i].Hostname \notin DeletedNames =>
        \E k \in 1..Len(cfcall.ingress) :
          cfcall.ingress[k].Hostname = NamedRules[i].Hostname

\* the ingress list the same call pushes when it is no dry run
WouldPush ==
  LET r == TunnelApplyResult([tunnel EXCEPT !.DryRun = FALSE,
                                            !.zoneNameIDMapper = cfcall.mapper],
                             [cf EXCEPT !.Ingress = cfcall.fetched], changes, 0)
      push == SelectSeq(r.calls, LAMBDA c : c.api = "UpdateTunnelConfiguration")
  IN push[1].items

\* C19: in dry-run mode ApplyChanges issues no UpdateTunnelConfiguration,
\* CreateDNSRecord, UpdateDNSRecord or DeleteDNSRecord call; when every read
\* call succeeds it has assembled the ingress list a real run pushes and
\* returns nil.
C19_TunnelDryRun ==
  (cfcall.op = "ApplyChanges" /\ tunnel.DryRun) =>
    /\ Len(MutatingCalls) = 0
    /\ ~cfcall.pushed
    /\ ReadsOk =>
         /\ ~cfcall.err
         /\ cfcall.assembled
         /\ cfcall.ingress = WouldPush

\* a dry run with a DNS create and a DNS delete queued issued read calls only
C19_Witness ==
  /\ cfcall.op = "ApplyChanges"
  /\ tunnel.DryRun
  /\ ~cfcall.err
  /\ Len(cfcall.creates) = 1
  /\ Len(cfcall.deletes) = 1
  /\ Len(cfcall.ingress) >= 2
  /\ Len(cfcall.calls) >= 3

\* the endpoints of the sequence that get a DNS call: type A, with a zone
Queued(endpoints) ==
  SelectSeq(endpoints,
            LAMBDA e : e.RecordType = "A"
                       /\ TunnelFindZone(cfcall.mapper, e.DNSName) # "")

\* the calls expected for the queued endpoints of one set of the changes
ExpectedDNS(api, endpoints) ==
  [i \in 1..Len(Queued(endpoints)) |-> <<api, Queued(endpoints)[i].DNSName>>]

\* the DNS name a queued DNS call is about: the name in its parameters, for
\* a delete the name of the vendor's record with its record id, which is
\* b.foo.com when the id is empty (the only name without a CNAME record)
CallNames(calls) ==
  LET all == TunnelRecordPages("cf.z1")[1] \o TunnelRecordPages("cf.z1")[2]
      owner(id) == IF id = "" THEN "b.foo.com"
                   ELSE (CHOOSE r \in {all[k] : k \in 1..Len(all)} : r.ID = id).Name
  IN [i \in 1..Len(calls) |->
        <<calls[i].api,
          IF calls[i].api = "DeleteDNSRecord"
          THEN owner(calls[i].items.recordID)
          ELSE calls[i].items.Name>>]

\* the calls of the last call of the provider to one API, in order
CallsTo(api) == SelectSeq(cfcall.calls, LAMBDA c : c.api = api)

\* C20: when it is no dry run and every read call succeeds,
\* UpdateTunnelConfiguration is issued once, before every DNS call; after
\* it come the CreateDNSRecord calls, then the UpdateDNSRecord calls, then
\* the DeleteDNSRecord calls, each group in the order of its endpoints in
\* the changes.
C20_CallOrder ==
  (cfcall.op = "ApplyChanges" /\ ~tunnel.DryRun /\ ReadsOk) =>
    /\ Len(MutatingCalls) >= 1
    /\ MutatingCalls[1].api = "UpdateTunnelConfiguration"
    /\ Len(CallsTo("UpdateTunnelConfiguration")) = 1
    /\ MutatingCalls[1].ok =>
         /\ [i \in 1..(Len(MutatingCalls) - 1) |-> MutatingCalls[i + 1].api] =
              [i \in 1..Len(CallsTo("CreateDNSRecord")) |-> "CreateDNSRecord"]
                \o [i \in 1..Len(CallsTo("UpdateDNSRecord")) |-> "UpdateDNSRecord"]
                \o [i \in 1..Len(CallsTo("DeleteDNSRecord")) |-> "DeleteDNSRecord"]
         /\ CallNames(CallsTo("CreateDNSRecord")) =
              ExpectedDNS("CreateDNSRecord", changes.Create)
         /\ CallNames(CallsTo("UpdateDNSRecord")) =
              ExpectedDNS("UpdateDNSRecord", changes.UpdateNew)
         /\ CallNames(CallsTo("DeleteDNSRecord")) =
              ExpectedDNS("DeleteDNSRecord", changes.Delete)
    /\ ~MutatingCalls[1].ok => Len(MutatingCalls) = 1 /\ cfcall.err

\* the configuration was pushed, then a DNS record created, then one deleted
C20_Witness ==
  /\ cfcall.op = "ApplyChanges"
  /\ ~tunnel.DryRun
  /\ ReadsOk
  /\ Len(MutatingCalls) = 3
  /\ MutatingCalls[2].api = "CreateDNSRecord"
  /\ MutatingCalls[3].api = "DeleteDNSRecord"

\* the DNS calls of the last call of the provider, in order
DNSCalls == SelectSeq(cfcall.calls,
                      LAMBDA c : c.api \in MutatingApis \ {"UpdateTunnelConfiguration"})

\* one call of the API for every queued parameter, in queue order
QueuedCalls(api, params) == [i \in 1..Len(params) |-> <<api, params[i]>>]

AllRecords(zoneID) ==
  LET pages == TunnelRecordPages(zoneID)
      F[i \in 0..Len(pages)] == IF i = 0 THEN <<>> ELSE F[i - 1] \o pages[i]
  IN F[Len(pages)]

\* id is the id of the first CNAME record of the name among the records, or
\* empty when the records hold no CNAME record of the name
FirstCNAME(records, name, id) ==
  LET match(i) == records[i].Name = name /\ records[i].Type = "CNAME" IN
  \/ \E i \in 1..Len(records) :
       /\ match(i)
       /\ records[i].ID = id
       /\ \A j \in 1..(i - 1) : ~match(j)
  \/ /\ id = ""
     /\ \A i \in 1..Len(records) : ~match(i)

\* C22: when ApplyChanges got to assemble its ingress list, every type-A
\* UpdateNew or Delete endpoint with a zone has a DNS update or delete
\* queued, whose record id is that of the first CNAME record of the
\* endpoint's name among the records of the zone in listing order, and is
\* empty when the zone has none; the queued operations are the ones issued.
C22_RecordID ==
  Assembled =>
    LET ups == Queued(changes.UpdateNew)
        des == Queued(changes.Delete)
    IN /\ Len(cfcall.updates) = Len(ups)
       /\ Len(cfcall.deletes) = Len(des)
       /\ \A i \in 1..Len(ups) :
            /\ cfcall.updates[i].Name = ups[i].DNSName
            /\ cfcall.updates[i].ZoneID = TunnelFindZone(cfcall.mapper, ups[i].DNSName)
            /\ FirstCNAME(AllRecords(cfcall.updates[i].ZoneID), ups[i].DNSName,
                          cfcall.updates[i].ID)
       /\ \A i \in 1..Len(des) :
            /\ cfcall.deletes[i].ZoneID = TunnelFindZone(cfcall.mapper, des[i].DNSName)
            /\ FirstCNAME(AllRecords(cfcall.deletes[i].ZoneID), des[i].DNSName,
                          cfcall.deletes[i].recordID)
       /\ cfcall.pushed =>
            SelectSeq(DNSCalls, LAMBDA c : c.api # "CreateDNSRecord") =
              [i \in 1..Len(ups) + Len(des) |->
                 IF i <= Len(ups)
                 THEN ApiCall("UpdateDNSRecord", "", cfcall.updates[i].ZoneID, 0,
                              cfcall.updates[i], DNSCalls[Len(cfcall.creates) + i].ok)
                 ELSE ApiCall("DeleteDNSRecord", "",
                              cfcall.deletes[i - Len(ups)].ZoneID, 0,
                              cfcall.deletes[i - Len(ups)],
                              DNSCalls[Len(cfcall.creates) + i].ok)]

\* an update issued with the id of the first of two CNAME records of the
\* name (a record of type A listed before them), and a delete issued with an
\* empty record id
C22_Witness ==
  /\ cfcall.op = "ApplyChanges"
  /\ cfcall.pushed
  /\ Len(DNSCalls) = 2
  /\ DNSCalls[1].api = "UpdateDNSRecord"
  /\ DNSCalls[1].items.ID = "r2"
  /\ DNSCalls[2].api = "DeleteDNSRecord"
  /\ DNSCalls[2].items.recordID = ""

\* the page numbers of the ListDNSRecords calls of the last call, in order
PagesFetched == [i \in 1..Len(cfcall.calls) |-> cfcall.calls[i].page]

\* C23: a record listing whose page fetches all succeed fetches the pages
\* 1 to the vendor's number of pages, once each and in that order, and
\* returns the records of all pages concatenated in page order; a listing
\* with a failed page fetch ends at that fetch and returns an error and no
\* records.
C23_Pagination ==
  cfcall.op = "List" =>
    LET n == Len(TunnelRecordPages("cf.z1"))
        k == Len(cfcall.calls)
    IN /\ k >= 1
       /\ \A i \in 1..k : /\ cfcall.calls[i].api = "ListDNSRecords"
                          /\ cfcall.calls[i].zone = "cf.z1"
       /\ \A i \in 1..(k - 1) : cfcall.calls[i].ok
       /\ PagesFetched = [i \in 1..k |-> i]
       /\ cfcall.calls[k].ok =>
            /\ k = n
            /\ ~cfcall.err
            /\ cfcall.records = AllRecords("cf.z1")
       /\ ~cfcall.calls[k].ok =>
            /\ k <= n
            /\ cfcall.err
            /\ cfcall.isNil
            /\ cfcall.records = <<>>

\* a listing of two pages of two records each, all four returned
C23_Witness ==
  /\ cfcall.op = "List"
  /\ ~cfcall.err
  /\ PagesFetched = <<1, 2>>
  /\ Len(TunnelRecordPages("cf.z1")[1]) = 2
  /\ Len(TunnelRecordPages("cf.z1")[2]) = 2
  /\ TunnelRecordPages("cf.z1")[1] # TunnelRecordPages("cf.z1")[2]
  /\ Len(cfcall.records) = 4

\* the changes without the endpoints whose record type is not A and without
\* the UpdateOld endpoints
OnlyTypeA(ch) ==
  [Create |-> SelectSeq(ch.Create, LAMBDA e : e.RecordType = "A"),
   UpdateNew |-> SelectSeq(ch.UpdateNew, LAMBDA e : e.RecordType = "A"),
   UpdateOld |-> <<>>,
   Delete |-> SelectSeq(ch.Delete, LAMBDA e : e.RecordType = "A")]

\* the number of the API call of the last call that failed, 0 if none did
FailedAt ==
  LET bad == {i \in 1..Len(cfcall.calls) : ~cfcall.calls[i].ok} IN
  IF bad = {} THEN 0 ELSE CHOOSE i \in bad : \A j \in bad : i <= j

\* the ingress list the tunnel held when the last call fetched it
FetchedIngress == IF cfcall.pushed THEN cfcall.fetched ELSE cf.Ingress

\* C24: an ApplyChanges call assembles the ingress list, queues the DNS
\* creates, updates and deletes, issues the API calls and returns the error
\* that it does for the same changes without their endpoints of a record
\* type other than A and without their UpdateOld endpoints.
C24_TypeAOnly ==
  cfcall.op = "ApplyChanges" =>
    LET r == TunnelApplyResult([tunnel EXCEPT !.zoneNameIDMapper = cfcall.mapper],
                               [cf EXCEPT !.Ingress = FetchedIngress],
                               OnlyTypeA(changes), FailedAt)
    IN /\ cfcall.assembled = r.assembled
       /\ cfcall.ingress = r.ingress
       /\ cfcall.creates = r.creates
       /\ cfcall.updates = r.updates
       /\ cfcall.deletes = r.deletes
       /\ cfcall.calls = r.calls
       /\ cfcall.err = r.err

\* a Create endpoint of type CNAME whose name has a zone and a rule in the
\* tunnel, and an UpdateOld endpoint: the ingress list pushed is the one
\* fetched and no DNS call is made
C24_Witness ==
  /\ cfcall.op = "ApplyChanges"
  /\ cfcall.pushed
  /\ Len(changes.Create) = 1
  /\ changes.Create[1].RecordType = "CNAME"
  /\ TunnelFindZone(cfcall.mapper, changes.Create[1].DNSName) # ""
  /\ Len(changes.UpdateOld) = 1
  /\ Len(cfcall.fetched) = 3
  /\ cfcall.ingress = cfcall.fetched
  /\ Len(DNSCalls) = 0

\* the zones of the record listings the last call started, in order
ListingsStarted ==
  LET first == SelectSeq(cfcall.calls,
                         LAMBDA c : c.api = "ListDNSRecords" /\ c.page = 1)
  IN [i \in 1..Len(first) |-> first[i].zone]

\* the zones of the endpoints of the sequence that have one, in order
ZonesOf(endpoints) ==
  [i \in 1..Len(Queued(endpoints)) |->
     TunnelFindZone(cfcall.mapper, Queued(endpoints)[i].DNSName)]

\* the type-A endpoints of the sequence whose name has no zone
Unresolved(endpoints) ==
  SelectSeq(endpoints,
            LAMBDA e : e.RecordType = "A"
                       /\ TunnelFindZone(cfcall.mapper, e.DNSName) = "")

\* the ingress list the same call assembles when the provider knows every
\* zone of the vendor
IngressAllZones ==
  TunnelApplyResult([tunnel EXCEPT !.zoneIDFilter = <<>>, !.DryRun = TRUE],
                    [cf EXCEPT !.Ingress = FetchedIngress], changes, 0).ingress

\* C25: when ApplyChanges got to assemble its ingress list, DNS creates,
\* updates and deletes are queued for the type-A endpoints with a zone only,
\* record listings are made for the UpdateNew and Delete endpoints with a
\* zone only, the assembled ingress list is the one assembled when every
\* name has a zone, and without a failed API call ApplyChanges returns nil
\* and, when not dry-run, has pushed the list.
C25_NoZone ==
  (cfcall.op = "ApplyChanges" /\ ReadsOk) =>
    /\ cfcall.assembled
    /\ Len(cfcall.creates) = Len(Queued(changes.Create))
    /\ Len(cfcall.updates) = Len(Queued(changes.UpdateNew))
    /\ Len(cfcall.deletes) = Len(Queued(changes.Delete))
    /\ ListingsStarted = ZonesOf(changes.UpdateNew) \o ZonesOf(changes.Delete)
    /\ cfcall.ingress = IngressAllZones
    /\ FailedAt = 0 => /\ ~cfcall.err
                       /\ ~tunnel.DryRun => cfcall.pushed
    /\ cfcall.pushed =>
         Len(DNSCalls) = Len(cfcall.creates) + Len(cfcall.updates)
                           + Len(cfcall.deletes)

\* a Create endpoint without a zone and a Delete endpoint with one: the rule
\* of the first is pushed, the only listing and the only DNS call are for
\* the second
C25_Witness ==
  /\ cfcall.op = "ApplyChanges"
  /\ cfcall.pushed
  /\ ~cfcall.err
  /\ Len(Unresolved(changes.Create)) = 1
  /\ Len(Queued(changes.Delete)) = 1
  /\ \E i \in 1..Len(cfcall.ingress) :
       cfcall.ingress[i] = EndpointRule(changes.Create[1])
  /\ ListingsStarted = <<"cf.z2">>
  /\ Len(DNSCalls) = 1
  /\ DNSCalls[1].api = "DeleteDNSRecord"

\* the API calls whose failure ApplyChanges returns
FailingApis ==
  {"ListZonesContext", "ZoneDetails", "GetTunnelConfiguration", "ListDNSRecords",
   "UpdateTunnelConfiguration"}

\* C26: an ApplyChanges that returns an error has issued no CreateDNSRecord,
\* UpdateDNSRecord or DeleteDNSRecord call; the call that failed is its last
\* one, a zone listing, the fetch of the tunnel configuration, a record
\* listing or the push, and when it is not the push no
\* UpdateTunnelConfiguration call has been issued and the tunnel keeps its
\* ingress list.
C26_ErrorAtomicity ==
  (cfcall.op = "ApplyChanges" /\ cfcall.err) =>
    LET k == Len(cfcall.calls) IN
    /\ Len(DNSCalls) = 0
    /\ k >= 1
    /\ FailedAt = k
    /\ cfcall.calls[k].api \in FailingApis
    /\ \A i \in 1..(k - 1) : cfcall.calls[i].api # "UpdateTunnelConfiguration"
    /\ ~cfcall.pushed

\* a failed listing of the second page of records, with a DNS create queued
\* before it: nothing was pushed, no DNS call issued
C26_Witness ==
  /\ cfcall.op = "ApplyChanges"
  /\ cfcall.err
  /\ ~tunnel.DryRun
  /\ Len(Queued(changes.Create)) = 1
  /\ cfcall.calls[Len(cfcall.calls)].api = "ListDNSRecords"
  /\ cfcall.calls[Len(cfcall.calls)].page = 2
  /\ Len(MutatingCalls) = 0

====
